---- MODULE Spec2Model ----
(***************************************************************************)
(* A model of the ARRIRAW legacy metadata reader: the binary field         *)
(* extraction engine (BinaryFileDTO), the Block Readers that bind a field   *)
(* catalog to it, and the Aggregator that merges nine Block Readers.        *)
(*                                                                         *)
(* Python values are modelled as follows.                                   *)
(*   bytes   a sequence of numbers 0..255                                   *)
(*   int     a record with tag "int": the base-256 digits of the magnitude, *)
(*           least significant first, without leading zero digits, and a    *)
(*           sign; Python ints are unbounded, and a 4-byte unsigned value   *)
(*           does not fit a 32-bit signed number                            *)
(*   str     a record with tag "str" holding a string                       *)
(*   dict    a sequence of [k, v] records with distinct keys, in insertion  *)
(*           order; two dicts are equal when they hold the same items       *)
(*   an exception is a result record with ok = FALSE and the exception's    *)
(*   name in err                                                            *)
(***************************************************************************)
EXTENDS Integers, Sequences, FiniteSets, TLC

VARIABLES
    file,               \* self.file: the bytes of the stream
    pos,                \* self.file: the stream cursor
    fields_to_extract,  \* self.fields_to_extract: the allow-list or None
    endianness,         \* self.endianness: the detected default order
    fields,             \* self.fields: the field catalog
    data,               \* self.data: what get_data() returns
    phase,              \* "base": BinaryFileDTO.__init__ done; "reader": a Block Reader's __init__ done; "raised": it raised
    ret,                \* what the last call returned, and the allow-list it ran with
    op,                 \* the last operation
    attrs,              \* the attributes of self that have been assigned
    rawdata,            \* Aggregator: self.rawdata
    objects,            \* Aggregator: self.objects, the Block Readers' data
    dictionary,         \* Aggregator: what the last get_dictionary() returned
    agg,                \* Aggregator: "new", "built", "raised", "merged"
    arg,                \* decoder harness: the arguments of the call
    result,             \* decoder harness: what the call returned
    extractors,         \* concurrent extractions: each extractor's stream, catalog, place in the loop and map
    cursors             \* concurrent extractions: the cursor of each stream object

extractorVars ==
    <<file, pos, fields_to_extract, endianness, fields, data, phase, ret, op, attrs>>
aggregatorVars == <<rawdata, objects, dictionary, agg>>
decoderVars == <<arg, result>>
parallelVars == <<extractors, cursors>>
vars == <<file, pos, fields_to_extract, endianness, fields, data, phase, ret, op, attrs,
          rawdata, objects, dictionary, agg, arg, result, extractors, cursors>>

----------------------------------------------------------------------------
(* Python values *)

Min(a, b) == IF a <= b THEN a ELSE b

Zeros(n) == [i \in 1..n |-> 0]

Reverse(s) == [i \in 1..Len(s) |-> s[Len(s) + 1 - i]]

PyInt(digits) == [t |-> "int", neg |-> FALSE, d |-> digits, s |-> ""]

PyNegInt(digits) == [t |-> "int", neg |-> TRUE, d |-> digits, s |-> ""]

PyStr(text) == [t |-> "str", neg |-> FALSE, d |-> <<>>, s |-> text]

(* the float struct.unpack gives for the format 'f': the IEEE 754 binary32  *)
(* value of a bit pattern, held as the pattern                              *)
PyFloat32(bits) == [t |-> "float32", neg |-> FALSE, d |-> bits, s |-> ""]

RECURSIVE Norm(_)
Norm(d) ==
    IF d = <<>> THEN d
    ELSE IF d[Len(d)] = 0 THEN Norm(SubSeq(d, 1, Len(d) - 1)) ELSE d

RECURSIVE Digits(_)
Digits(n) == IF n = 0 THEN <<>> ELSE <<n % 256>> \o Digits(n \div 256)

Num(n) == PyInt(Digits(n))

(* bit p of a non-negative int *)
Bit(v, p) ==
    IF (p \div 8) + 1 > Len(v.d) THEN 0
    ELSE (v.d[(p \div 8) + 1] \div (2 ^ (p % 8))) % 2

(* the non-negative int whose bit j is b[j], for j in 0..8*n-1 *)
FromBits(b(_), n) ==
    PyInt(Norm([i \in 1..n |->
        b(8*i - 8) + 2 * b(8*i - 7) + 4 * b(8*i - 6) + 8 * b(8*i - 5)
        + 16 * b(8*i - 4) + 32 * b(8*i - 3) + 64 * b(8*i - 2) + 128 * b(8*i - 1)]))

(* minus the two's complement value of w digits whose top bit is set *)
RECURSIVE AddOne(_)
AddOne(d) ==
    IF d = <<>> THEN <<1>>
    ELSE IF d[1] < 255 THEN <<d[1] + 1>> \o Tail(d)
    ELSE <<0>> \o AddOne(Tail(d))

TwosComplement(d) == PyNegInt(Norm(AddOne([i \in 1..Len(d) |-> 255 - d[i]])))

----------------------------------------------------------------------------
(* dict *)

Keys(m) == {m[i].k : i \in 1..Len(m)}

Has(m, key) == key \in Keys(m)

Get(m, key) == m[CHOOSE i \in 1..Len(m) : m[i].k = key].v

(* m[key] = value: a present key keeps its place *)
SetItem(m, key, value) ==
    IF Has(m, key)
    THEN [i \in 1..Len(m) |-> IF m[i].k = key THEN [k |-> key, v |-> value] ELSE m[i]]
    ELSE Append(m, [k |-> key, v |-> value])

Update_first_wins(m, other) == m \o SelectSeq(other, LAMBDA item : ~Has(m, item.k))

(* m.update(other), other a dict: a key of m keeps its place and takes the   *)
(* value of other, the new keys follow in the order of other                *)
Update(m, other) ==
    [i \in 1..Len(m) |->
        IF Has(other, m[i].k) THEN [k |-> m[i].k, v |-> Get(other, m[i].k)] ELSE m[i]]
    \o SelectSeq(other, LAMBDA item : ~Has(m, item.k))

(* dict equality: the same items, whatever the order *)
DictEq(a, b) ==
    /\ Keys(a) = Keys(b)
    /\ \A key \in Keys(a) : Get(a, key) = Get(b, key)

----------------------------------------------------------------------------
(* text: str values are built from character codes *)

HexDigit == <<"0", "1", "2", "3", "4", "5", "6", "7", "8", "9", "a", "b", "c", "d", "e", "f">>

Hex2(b) == HexDigit[(b \div 16) + 1] \o HexDigit[(b % 16) + 1]

Printable ==
    <<" ", "!", "\"", "#", "$", "%", "&", "'", "(", ")", "*", "+", ",", "-", ".", "/",
      "0", "1", "2", "3", "4", "5", "6", "7", "8", "9", ":", ";", "<", "=", ">", "?",
      "@", "A", "B", "C", "D", "E", "F", "G", "H", "I", "J", "K", "L", "M", "N", "O",
      "P", "Q", "R", "S", "T", "U", "V", "W", "X", "Y", "Z", "[", "\\", "]", "^", "_",
      "\\x60", "a", "b", "c", "d", "e", "f", "g", "h", "i", "j", "k", "l", "m", "n", "o",
      "p", "q", "r", "s", "t", "u", "v", "w", "x", "y", "z", "{", "|", "}", "~">>

(* a character: printable ASCII as itself; a control character, and the     *)
(* grave accent (which a string literal cannot hold), as \xNN              *)
Chr(c) == IF c >= 32 /\ c <= 126 THEN Printable[c - 31] ELSE "\\x" \o Hex2(c)

RECURSIVE ToStr(_)
ToStr(codes) == IF codes = <<>> THEN "" ELSE Chr(Head(codes)) \o ToStr(Tail(codes))

----------------------------------------------------------------------------
(* results of calls: a value and the cursor it leaves, or an exception *)

Ok(val, p) == [ok |-> TRUE, err |-> "", val |-> val, pos |-> p]

Raise(name, p) == [ok |-> FALSE, err |-> name, val |-> <<>>, pos |-> p]

(* the statements K behind a call that returned r; a call that raised ends  *)
(* the function                                                             *)
Then(r, K(_)) == IF r.ok THEN K(r) ELSE r

(* file.read(n) at cursor p: what is left of the stream when fewer than n    *)
(* bytes remain, and nothing (the cursor staying) at or past its end         *)
read(f, p, n) ==
    [bytes |-> SubSeq(f, p + 1, Min(p + n, Len(f))),
     pos |-> IF p >= Len(f) THEN p ELSE Min(p + n, Len(f))]

(* int.from_bytes(b, byteorder=...): unsigned *)
from_bytes(b, byteorder) == PyInt(Norm(IF byteorder = "little" THEN b ELSE Reverse(b)))

(* struct.calcsize of a standard-size format character *)
calcsize(code) ==
    CASE code \in {"B", "b"} -> 1
      [] code \in {"H", "h"} -> 2
      [] code \in {"I", "i", "L", "l", "f"} -> 4
      [] code \in {"Q", "q"} -> 8

(* struct.unpack(order + code, b)[0] for b of the right size *)
unpack(order, code, b) ==
    LET le == IF order = "<" THEN b ELSE Reverse(b)
    IN  IF code = "f" THEN PyFloat32(Norm(le))
        ELSE IF code \in {"b", "h", "i", "l", "q"} /\ le[Len(le)] >= 128
        THEN TwosComplement(le)
        ELSE PyInt(Norm(le))

_read_and_unpack_peek(f, p, order, code) ==
    LET r == read(f, p, calcsize(code))
    IN  IF Len(r.bytes) # calcsize(code)
        THEN Raise("struct.error", p)
        ELSE Ok(unpack(order, code, r.bytes), p)

(* struct.unpack(format_string, input_bytes.read(struct.calcsize(...)))[0]  *)
_read_and_unpack(f, p, order, code) ==
    LET r == read(f, p, calcsize(code))
    IN  IF Len(r.bytes) # calcsize(code)
        THEN Raise("struct.error", r.pos)
        ELSE Ok(unpack(order, code, r.bytes), r.pos)

LittleEndianOrderWord_swapped == Digits(2018915346)

(* 0x12345678 *)
LittleEndianOrderWord == Digits(305419896)

_determine_endianness(f) ==
    LET ari_magic == read(f, 0, 4)
        ari_byte_order == _read_and_unpack(f, ari_magic.pos, "<", "I")
    IN  IF ~ari_byte_order.ok THEN ari_byte_order
        ELSE Ok(IF ari_byte_order.val = PyInt(LittleEndianOrderWord) THEN "<" ELSE ">",
                ari_byte_order.pos)

(* bytes.decode('utf-8', 'ignore'): an ASCII byte is its character, a byte   *)
(* that is part of no valid sequence is dropped. No byte above 0x7F of the   *)
(* model's streams is followed by the bytes that would make it a character.  *)
decode(b) == SelectSeq(b, LAMBDA c : c < 128)

StripNul_trailing(codes) ==
    LET inked == {i \in 1..Len(codes) : codes[i] # 0}
    IN  IF inked = {} THEN <<>>
        ELSE SubSeq(codes, 1, CHOOSE i \in inked : \A j \in inked : j <= i)

(* .rstrip('\x00').replace('\x00', '') *)
StripNul(codes) == SelectSeq(codes, LAMBDA c : c # 0)

(* the characters of the str _read_string returns *)
ReadStringCodes(f, p, length, e) ==
    LET r == read(f, p, length)
        bytes_data == IF e = "<" THEN Reverse(r.bytes) ELSE r.bytes
    IN  [codes |-> StripNul(decode(bytes_data)), pos |-> r.pos]

_read_string_stored(f, p, length, e) ==
    LET r == read(f, p, length)
    IN  Ok(PyStr(ToStr(StripNul(decode(r.bytes)))), r.pos)

_read_string(f, p, length, e) ==
    LET r == ReadStringCodes(f, p, length, e)
    IN  Ok(PyStr(ToStr(r.codes)), r.pos)

(* str.split(sep) for a one-character separator *)
RECURSIVE Split(_, _)
Split(codes, sep) ==
    IF \E i \in 1..Len(codes) : codes[i] = sep
    THEN LET i == CHOOSE j \in 1..Len(codes) :
                      codes[j] = sep /\ \A h \in 1..(j - 1) : codes[h] # sep
         IN  <<SubSeq(codes, 1, i - 1)>> \o Split(SubSeq(codes, i + 1, Len(codes)), sep)
    ELSE <<codes>>

(* str.strip(): the ASCII whitespace characters *)
IsSpace(c) == c \in {9, 10, 11, 12, 13, 28, 29, 30, 31, 32}

RECURSIVE LStrip(_)
LStrip(codes) ==
    IF codes # <<>> /\ IsSpace(Head(codes)) THEN LStrip(Tail(codes)) ELSE codes

Strip_left(codes) == LStrip(codes)

Strip(codes) == Reverse(LStrip(Reverse(LStrip(codes))))

PairValue_last(parts) == parts[Len(parts)]

(* pair.split(':')[1] *)
PairValue(parts) == parts[2]

RECURSIVE SplitPairs(_, _)
SplitPairs(pairs, acc) ==
    IF pairs = <<>> THEN acc
    ELSE LET pair == Head(pairs)
             parts == Split(pair, 58)
         IN  IF \E i \in 1..Len(pair) : pair[i] = 58
             THEN SplitPairs(Tail(pairs),
                             SetItem(acc, ToStr(Strip(parts[1])),
                                     PyStr(ToStr(Strip(PairValue(parts))))))
             ELSE SplitPairs(Tail(pairs), acc)

_split_user_string(input_string) == SplitPairs(Split(input_string, 59), <<>>)

RECURSIVE Join(_, _)
Join(sep, parts) ==
    IF parts = <<>> THEN ""
    ELSE IF Len(parts) = 1 THEN parts[1]
    ELSE parts[1] \o sep \o Join(sep, Tail(parts))

_bytes_to_time_code_stored(time_code_bytes) ==
    Join(":", [i \in 1..Len(time_code_bytes) |-> Hex2(time_code_bytes[i])])

(* hexlify, the two-digit groups reversed and joined by ':' *)
_bytes_to_time_code(time_code_bytes) ==
    Join(":", Reverse([i \in 1..Len(time_code_bytes) |-> Hex2(time_code_bytes[i])]))

----------------------------------------------------------------------------
(* TStop *)

(* the number a non-negative int of at most three digits stands for *)
RECURSIVE Value(_)
Value(d) == IF d = <<>> THEN 0 ELSE Head(d) + 256 * Value(Tail(d))

(* str(round(2 ** (((data/1000) - 1) / 2), 2)) in double arithmetic, for the *)
(* raw values the model's buffers and the tests hold                        *)
TStopText ==
    [n \in {0, 1, 2, 3, 256, 512, 768, 1000, 1500, 2000, 3000, 4000, 47115, 65023, 65533,
            2048999} |->
        CASE n \in {0, 1, 2, 3} -> "0.71"
          [] n = 256 -> "0.77"
          [] n = 512 -> "0.84"
          [] n = 768 -> "0.92"
          [] n = 1000 -> "1.0"
          [] n = 1500 -> "1.19"
          [] n = 2000 -> "1.41"
          [] n = 3000 -> "2.0"
          [] n = 4000 -> "2.83"
          [] n = 47115 -> "8729696.1"
          [] n = 65023 -> "4329340121.63"
          [] n = 65533 -> "5166356310.88"
          [] n = 2048999 -> "1.7970702098491325e+308"]

(* the same for the raw values -4, -1000, -2000, -65536, by their magnitude *)
TStopNegText ==
    [n \in {4, 1000, 2000, 65536} |->
        CASE n = 4 -> "0.71"
          [] n = 1000 -> "0.5"
          [] n = 2000 -> "0.35"
          [] n = 65536 -> "0.0"]

(* 2 ** x raises OverflowError from x = 1024.0 on: data >= 2049000 *)
TStopOverflows(raw) == Len(raw.d) > 3 \/ Value(raw.d) >= 2049000

_convert_data_to_tstop(raw) ==
    IF raw = PyNegInt(<<3>>) THEN Ok(PyStr("NearClose"), 0)
    ELSE IF raw = PyNegInt(<<2>>) THEN Ok(PyStr("Close"), 0)
    ELSE IF raw = PyNegInt(<<1>>) THEN Ok(PyStr("Invalid"), 0)
    ELSE IF raw.neg THEN Ok(PyStr(TStopNegText[Value(raw.d)]), 0)
    ELSE IF TStopOverflows(raw) THEN Raise("OverflowError", 0)
    ELSE Ok(PyStr(TStopText[Value(raw.d)]), 0)

_read_tstop(f, p, byteorder) ==
    LET r == read(f, p, 4)
        c == _convert_data_to_tstop(from_bytes(r.bytes, byteorder))
    IN  [c EXCEPT !.pos = r.pos]

----------------------------------------------------------------------------
(* bits *)

_read_bit_little(f, p, bit_position, byteorder) ==
    LET r == read(f, p, 4)
        value == from_bytes(r.bytes, "little")
    IN  Ok(Num(Bit(value, bit_position)), r.pos)

(* (value >> bit_position) & 1 *)
_read_bit(f, p, bit_position, byteorder) ==
    LET r == read(f, p, 4)
        value == from_bytes(r.bytes, byteorder)
    IN  Ok(Num(Bit(value, bit_position)), r.pos)

(* the reader of src/binaryfiledto.py, whose bits fields declare a list of  *)
(* positions                                                                *)

(* 2**i *)
Pow2(i) == PyInt(Zeros(i \div 8) \o <<2 ^ (i % 8)>>)

RECURSIVE AddDigits(_, _, _)
AddDigits(a, b, carry) ==
    IF a = <<>> /\ b = <<>> THEN (IF carry = 0 THEN <<>> ELSE <<carry>>)
    ELSE LET x == IF a = <<>> THEN 0 ELSE Head(a)
             y == IF b = <<>> THEN 0 ELSE Head(b)
             rest(t) == IF t = <<>> THEN <<>> ELSE Tail(t)
         IN  <<(x + y + carry) % 256>> \o AddDigits(rest(a), rest(b), (x + y + carry) \div 256)

Add(x, y) == PyInt(Norm(AddDigits(x.d, y.d, 0)))

(* x & y and x >> n, for values below 2**40 *)
BitAnd(x, y) == FromBits(LAMBDA j : Bit(x, j) * Bit(y, j), 5)

ShiftRight(x, n) == FromBits(LAMBDA j : Bit(x, j + n), 5)

RECURSIVE MinOf(_)
MinOf(positions) ==
    IF Len(positions) = 1 THEN Head(positions)
    ELSE Min(Head(positions), MinOf(Tail(positions)))

RECURSIVE create_bit_mask(_)
create_bit_mask_all(bit_positions) == PyInt(<<255, 255, 255, 255>>)

(* sum([2**i for i in bit_positions]) *)
create_bit_mask(bit_positions) ==
    IF bit_positions = <<>> THEN Num(0)
    ELSE Add(Pow2(Head(bit_positions)), create_bit_mask(Tail(bit_positions)))

(* (data & mask) >> min(bit_position); min() of an empty list raises *)
read_bits(f, p, byteorder, bit_position) ==
    LET r == read(f, p, 4)
        value == from_bytes(r.bytes, byteorder)
        mask == create_bit_mask(bit_position)
    IN  IF bit_position = <<>> THEN Raise("ValueError", r.pos)
        ELSE Ok(ShiftRight(BitAnd(value, mask), MinOf(bit_position)), r.pos)

----------------------------------------------------------------------------
(* BCD date, time, offset *)

(* f"{b >> 4}{b & 0x0F}": each nibble in decimal *)
Decimal(n) == IF n < 10 THEN <<48 + n>> ELSE <<49, 48 + (n - 10)>>

RECURSIVE Concat(_)
Concat(parts) == IF parts = <<>> THEN <<>> ELSE Head(parts) \o Concat(Tail(parts))

Slice_open(codes, a, b) == SubSeq(codes, a + 1, Len(codes))

(* s[a:b] *)
Slice(codes, a, b) == SubSeq(codes, a + 1, Min(b, Len(codes)))

(* [f"{b >> 4}{b & 0x0F}" for b in bcd] *)
DecimalDigits(bcd) ==
    [i \in 1..Len(bcd) |-> Decimal(bcd[i] \div 16) \o Decimal(bcd[i] % 16)]

_bcd_to_str(bcd, format_string, spacer, e, prefix) ==
    LET decimal_digits == DecimalDigits(bcd)
        date_string == IF e = ">" THEN Concat(Reverse(decimal_digits))
                       ELSE Concat(decimal_digits)
        part(a, b) == ToStr(Slice(date_string, a, b))
    IN  CASE format_string = "date" ->
                part(0, 4) \o spacer \o part(4, 6) \o spacer \o part(6, 8)
          [] format_string = "time" ->
                part(0, 2) \o spacer \o part(2, 4) \o spacer \o part(4, 6) \o spacer \o part(6, 8)
          [] format_string = "offset" ->
                prefix \o part(4, 6) \o spacer \o part(6, 8)
          [] OTHER -> ToStr(date_string)

----------------------------------------------------------------------------
(* frame-line *)

FormatOrder_resolved(e) == e

(* the order character of the format strings '<I' and '<H' *)
FormatOrder(e) == "<"

_read_frameline(f, p, frameline_number, e) ==
    LET key(part) == "FrameLine" \o frameline_number \o part
        frameline_type == _read_and_unpack(f, p, FormatOrder(e), "I")
        type == IF frameline_type.val = Num(1) THEN "Master"
                ELSE IF frameline_type.val = Num(2) THEN "Aux"
                ELSE "Inactive"
        name == _read_string(f, frameline_type.pos, 32, e)
        left == _read_and_unpack(f, name.pos, FormatOrder(e), "H")
        top == _read_and_unpack(f, left.pos, FormatOrder(e), "H")
        width == _read_and_unpack(f, top.pos, FormatOrder(e), "H")
        height == _read_and_unpack(f, width.pos, FormatOrder(e), "H")
    IN  IF ~frameline_type.ok THEN frameline_type
        ELSE IF type = "Inactive"
        THEN Ok(<<[k |-> key("Type"), v |-> PyStr(type)],
                  [k |-> key("Name"), v |-> PyStr("--")],
                  [k |-> key("Left"), v |-> PyStr("--")],
                  [k |-> key("Top"), v |-> PyStr("--")],
                  [k |-> key("Width"), v |-> PyStr("--")],
                  [k |-> key("Height"), v |-> PyStr("--")]>>, frameline_type.pos)
        ELSE IF ~left.ok THEN left
        ELSE IF ~top.ok THEN top
        ELSE IF ~width.ok THEN width
        ELSE IF ~height.ok THEN height
        ELSE Ok(<<[k |-> key("Type"), v |-> PyStr(type)],
                  [k |-> key("Name"), v |-> name.val],
                  [k |-> key("Left"), v |-> left.val],
                  [k |-> key("Top"), v |-> top.val],
                  [k |-> key("Width"), v |-> width.val],
                  [k |-> key("Height"), v |-> height.val]>>, height.pos)

----------------------------------------------------------------------------
(* UUID *)

RECURSIVE HexText(_)
HexText(b) == IF b = <<>> THEN "" ELSE Hex2(Head(b)) \o HexText(Tail(b))

(* str(uuid.UUID(bytes_le=b)) for 16 bytes b *)
UuidText(b) ==
    HexText(<<b[4], b[3], b[2], b[1]>>) \o "-" \o HexText(<<b[6], b[5]>>) \o "-"
    \o HexText(<<b[8], b[7]>>) \o "-" \o HexText(<<b[9], b[10]>>) \o "-"
    \o HexText(SubSeq(b, 11, 16))

----------------------------------------------------------------------------
(* field descriptors: a dict with the keys a datatype needs. An absent      *)
(* 'endianness' or 'mapping' is None; the other absent keys are never read  *)

None == "None"

NoMapping == [none |-> TRUE, table |-> <<>>]

Mapping(table) == [none |-> FALSE, table |-> table]

(* an absent 'decimals' is None *)
NoDecimals == [none |-> TRUE, n |-> 0]

Decimals(n) == [none |-> FALSE, n |-> n]

Field(name, offset, datatype) ==
    [name |-> name, offset |-> offset, datatype |-> datatype, length |-> 0,
     endianness |-> None, bit_position |-> 0, mapping |-> NoMapping,
     number |-> "", prefix |-> "", decimals |-> NoDecimals, unit |-> None]

(* field['mapping'].get(value, 'Unknown'): the keys of a table are ints *)
MappingGet(table, value) ==
    IF \E i \in 1..Len(table) : Num(table[i].k) = value
    THEN PyStr(table[CHOOSE i \in 1..Len(table) : Num(table[i].k) = value].v)
    ELSE PyStr("Unknown")

----------------------------------------------------------------------------
(* the handlers: each returns a dict and leaves the cursor past what it read *)

Single(name, r) == IF r.ok THEN Ok(<<[k |-> name, v |-> r.val]>>, r.pos) ELSE r

ByteOrder(e) == IF e = ">" THEN "big" ELSE "little"

_handle_string_field(f, p, field, e) ==
    Single(field.name, _read_string(f, p, field.length, e))

_handle_user_string_field(f, p, field, e) ==
    LET r == ReadStringCodes(f, p, field.length, e)
    IN  Ok(_split_user_string(r.codes), r.pos)

_handle_timecode_field(f, p, field, e) ==
    LET r == read(f, p, 4)
    IN  Single(field.name, Ok(PyStr(_bytes_to_time_code(r.bytes)), r.pos))

_handle_tstop_field(f, p, field, e) ==
    Single(field.name, _read_tstop(f, p, ByteOrder(e)))

_handle_frameline_field(f, p, field, e) ==
    _read_frameline(f, p, field.number, e)

_handle_uuid_field(f, p, field, e) ==
    LET r == read(f, p, 16)
    IN  IF Len(r.bytes) # 16 THEN Raise("ValueError", r.pos)
        ELSE Single(field.name, Ok(PyStr(UuidText(r.bytes)), r.pos))

_handle_bits_field(f, p, field, e) ==
    Single(field.name, _read_bit(f, p, field.bit_position, ByteOrder(e)))

_handle_default_field(f, p, field, e) ==
    Single(field.name, _read_and_unpack(f, p, e, field.datatype))

_handle_date_field(f, p, field, e) ==
    LET date_bcd == read(f, p, 4)
    IN  Single(field.name,
               Ok(PyStr(_bcd_to_str(date_bcd.bytes, field.datatype, "/", e, "")), date_bcd.pos))

_handle_time_field(f, p, field, e) ==
    LET time_bcd == read(f, p, 4)
    IN  Single(field.name,
               Ok(PyStr(_bcd_to_str(time_bcd.bytes, field.datatype, ":", e, "")), time_bcd.pos))

_handle_offset_field(f, p, field, e) ==
    LET offset_bcd == read(f, p, 4)
    IN  Single(field.name,
               Ok(PyStr(_bcd_to_str(offset_bcd.bytes, field.datatype, ":", e, field.prefix)),
                  offset_bcd.pos))

(* float(data / 1000) for an int below 2^32: the float nearest to it, named *)
(* by the thousandths it was made from (no two of them give one float)     *)
PyFloat(thousandths) == [t |-> "float", neg |-> FALSE, d |-> thousandths, s |-> ""]

(* big-endian base-256 digits divided by k: the quotient's digits and the   *)
(* remainder                                                                *)
RECURSIVE DivDigits(_, _, _)
DivDigits(b, k, carry) ==
    IF b = <<>> THEN [q |-> <<>>, r |-> carry]
    ELSE LET cur == carry * 256 + Head(b)
             rest == DivDigits(Tail(b), k, cur % k)
         IN  [q |-> <<cur \div k>> \o rest.q, r |-> rest.r]

RECURSIVE IntText(_)
IntText(n) ==
    IF n < 10 THEN HexDigit[n + 1] ELSE IntText(n \div 10) \o HexDigit[(n % 10) + 1]

RECURSIVE Padded(_, _)
Padded_none(n, width) == IF width = 0 THEN "" ELSE IntText(n)

(* n in decimal, with leading zeros to the width *)
Padded(n, width) ==
    IF width = 0 THEN "" ELSE Padded(n \div 10, width - 1) \o HexDigit[(n % 10) + 1]

(* f'{data:.{decimals}f}' for data = thousandths / 1000 and up to three      *)
(* decimals: the digits left of the cut, rounded to the nearest; a value    *)
(* half-way between two is rounded by the binary value of the float, and    *)
(* the model's buffers hold none at a place that cuts digits                *)
Fixed(thousandths, decimals) ==
    LET whole == DivDigits(Reverse(thousandths), 1000, 0)
        cut == 10 ^ (3 - decimals)
        kept == whole.r \div cut
        dropped == whole.r % cut
        up == CASE 2 * dropped < cut -> FALSE
                [] 2 * dropped > cut -> TRUE
        carry == up /\ kept + 1 = 10 ^ decimals
        int == Value(Reverse(whole.q)) + (IF carry THEN 1 ELSE 0)
        frac == IF carry THEN 0 ELSE IF up THEN kept + 1 ELSE kept
    IN  IF decimals = 0 THEN IntText(int)
        ELSE IntText(int) \o "." \o Padded(frac, decimals)

(* str(data) for data = thousandths / 1000: the shortest text that reads    *)
(* back as the float, at least one decimal                                  *)
Repr(thousandths) ==
    LET whole == DivDigits(Reverse(thousandths), 1000, 0)
    IN  IntText(Value(Reverse(whole.q))) \o "."
        \o (IF whole.r % 100 = 0 THEN Padded(whole.r \div 100, 1)
            ELSE IF whole.r % 10 = 0 THEN Padded(whole.r \div 10, 2)
            ELSE Padded(whole.r, 3))

_handle_float_field(f, p, field, e) ==
    LET raw == _read_and_unpack(f, p, e, "I")
        text == IF ~field.decimals.none THEN Fixed(raw.val.d, field.decimals.n)
                ELSE Repr(raw.val.d)
    IN  IF ~raw.ok THEN raw
        ELSE IF field.unit # None
        THEN Single(field.name, Ok(PyStr(text \o " " \o field.unit), raw.pos))
        ELSE IF ~field.decimals.none
        THEN Single(field.name, Ok(PyStr(text), raw.pos))
        ELSE Single(field.name, Ok(PyFloat(raw.val.d), raw.pos))

handle_field(f, p, field, e) ==
    CASE field.datatype = "string" -> _handle_string_field(f, p, field, e)
      [] field.datatype = "UserString" -> _handle_user_string_field(f, p, field, e)
      [] field.datatype = "timecode" -> _handle_timecode_field(f, p, field, e)
      [] field.datatype = "TStop" -> _handle_tstop_field(f, p, field, e)
      [] field.datatype = "frameline" -> _handle_frameline_field(f, p, field, e)
      [] field.datatype = "uuid" -> _handle_uuid_field(f, p, field, e)
      [] field.datatype = "bits" -> _handle_bits_field(f, p, field, e)
      [] field.datatype = "date" -> _handle_date_field(f, p, field, e)
      [] field.datatype = "time" -> _handle_time_field(f, p, field, e)
      [] field.datatype = "offset" -> _handle_offset_field(f, p, field, e)
      [] field.datatype = "float" -> _handle_float_field(f, p, field, e)
      [] OTHER -> _handle_default_field(f, p, field, e)

----------------------------------------------------------------------------
(* extract_metadata *)

AllFields == [none |-> TRUE, names |-> {}]

Only(names) == [none |-> FALSE, names |-> names]

(* self.fields_to_extract is None or field['name'] in self.fields_to_extract *)
Selected_ignored(field, allow) == TRUE

Selected(field, allow) == allow.none \/ field.name \in allow.names

seek_nowhere(p, offset) == p

(* self.file.seek(field['offset']) *)
seek(p, offset) == offset

ResolveOrder_default(field, default) == default

(* field['endianness'] if it is not None, else self.endianness *)
ResolveOrder(field, default) ==
    IF field.endianness # None THEN field.endianness ELSE default

Remap_skipped(field, metadata, p) == Ok(metadata, p)

(* metadata[name] = field['mapping'].get(metadata[name], 'Unknown') *)
Remap(field, metadata, p) ==
    IF field.mapping.none THEN Ok(metadata, p)
    ELSE IF ~Has(metadata, field.name) THEN Raise("KeyError", p)
    ELSE Ok(SetItem(metadata, field.name,
                    MappingGet(field.mapping.table, Get(metadata, field.name))), p)

(* the field is decoded at its offset and merged into the map, its value is *)
(* replaced by its label, and the loop goes on behind it; a failure leaves   *)
(* the loop                                                                 *)
RECURSIVE ExtractFrom(_, _, _, _, _, _)
ExtractFrom(f, p, flds, allow, default, metadata) ==
    IF flds = <<>> THEN Ok(metadata, p)
    ELSE IF ~Selected(Head(flds), allow)
    THEN ExtractFrom(f, p, Tail(flds), allow, default, metadata)
    ELSE Then(handle_field(f, seek(p, Head(flds).offset), Head(flds),
                           ResolveOrder(Head(flds), default)),
              LAMBDA h :
                  Then(Remap(Head(flds), Update(metadata, h.val), h.pos),
                       LAMBDA m : ExtractFrom(f, m.pos, Tail(flds), allow, default, m.val)))

extract_metadata(f, p, flds, allow, default) ==
    ExtractFrom(f, p, flds, allow, default, <<>>)

list_fields_selected(flds) ==
    SelectSeq([i \in 1..Len(flds) |-> flds[i].name],
              LAMBDA name : fields_to_extract.none \/ name \in fields_to_extract.names)

(* list_fields: [field['name'] for field in self.fields] *)
list_fields(flds) == [i \in 1..Len(flds) |-> flds[i].name]

----------------------------------------------------------------------------
(* the inputs of the model: streams *)

(* the longest stream *)
MaxLen == 52

(* 'ARRI' *)
Magic == <<65, 82, 82, 73>>

(* the order word of a little-endian file, of a big-endian file *)
OrderWords == {<<120, 86, 52, 18>>, <<18, 52, 86, 120>>}

(* the four bytes at offset 8: 0, 1, 3 and 3000 as little-endian words, and *)
(* the two's complement of -3                                               *)
Words ==
    {<<0, 0, 0, 0>>, <<1, 0, 0, 0>>, <<3, 0, 0, 0>>,
     <<184, 11, 0, 0>>, <<253, 255, 255, 255>>}

(* the eight bytes at offset 12: 'Reel:v;\0', the same reversed, 'k: a :b;' *)
Texts ==
    {<<82, 101, 101, 108, 58, 118, 59, 0>>,
     <<0, 59, 118, 58, 108, 101, 101, 82>>,
     <<107, 58, 32, 97, 32, 58, 98, 59>>}

(* a stream: magic, order word, a word, a text (the start of a 32-byte name, *)
(* NUL-padded), and the 16-bit words 10, 20, 30, 40                          *)
Stream(order, word, text) ==
    Magic \o order \o word \o text \o Zeros(24) \o <<10, 0, 20, 0, 30, 0, 40, 0>>
    \o Zeros(MaxLen - 52)

(* the lengths streams are cut to: inside the word, inside the text, after  *)
(* the text, and whole                                                      *)
Lengths == {10, 14, 20, MaxLen}

Streams ==
    {SubSeq(Stream(o, w, t), 1, n) : o \in OrderWords, w \in Words, t \in Texts, n \in Lengths}

----------------------------------------------------------------------------
(* the inputs of the model: field catalogs, the repository's with the       *)
(* offsets moved into the model's streams                                   *)

With(field, e) == [field EXCEPT !.endianness = e]

YesNo == <<[k |-> 0, v |-> "no"], [k |-> 1, v |-> "yes"]>>

(* tests/test_binaryfiledto.py: three one-byte fields, two with a table *)
TestFields ==
    <<[With(Field("field1", 8, "B"), ">") EXCEPT !.mapping = Mapping(<<[k |-> 1, v |-> "One"]>>)],
      [With(Field("field2", 9, "B"), ">") EXCEPT !.mapping = Mapping(<<[k |-> 2, v |-> "Two"]>>)],
      With(Field("field3", 10, "B"), ">")>>

(* CDI.py: a BCD date at the default order, two flags of one word, a UUID *)
CdiFields ==
    <<Field("SystemImageCreationDate", 8, "date"),
      [With(Field("MirrorShutterRunning", 8, "bits"), "<") EXCEPT
            !.bit_position = 0, !.mapping = Mapping(YesNo)],
      [With(Field("Vari", 8, "bits"), "<") EXCEPT
            !.bit_position = 1,
            !.mapping = Mapping(<<[k |-> 0, v |-> "Valid Image"],
                                  [k |-> 1, v |-> "Duplicate Image"]>>)],
      Field("UUID", 12, "uuid")>>

(* LDI.py: the iris word read as a number and as a TStop *)
LdiFields ==
    <<[With(Field("LensDistanceUnit", 8, "I"), "<") EXCEPT
            !.mapping = Mapping(<<[k |-> 0, v |-> "Inch"], [k |-> 1, v |-> "Meter"],
                                  [k |-> 2, v |-> "Default Unit"]>>)],
      With(Field("LensLinearIris", 8, "I"), "<"),
      With(Field("LensIris", 8, "TStop"), "<")>>

(* CID.py: fixed strings around the free-text field *)
CidFields ==
    <<[Field("Reel", 12, "string") EXCEPT !.length = 4],
      [Field("VarUserInfoFields", 12, "UserString") EXCEPT !.length = 8],
      [Field("CameraClipName", 16, "string") EXCEPT !.length = 4]>>

(* FLI.py: a frame-line file name and a frame-line *)
FliFields ==
    <<With(Field("FLIValid", 8, "I"), "<"),
      [Field("FrameLineFile1", 12, "string") EXCEPT !.length = 4],
      [Field("FrameLine1A", 8, "frameline") EXCEPT !.number = "1A"]>>

(* IDI.py, ICI.py, VFX.py, SID.py, NRI.py *)
IdiFields ==
    <<With(Field("IDIValid", 8, "I"), "<"),
      With(Field("ImageWidth", 8, "I"), "<")>>

IciFields ==
    <<With(Field("ICIValid", 8, "I"), "<"),
      With(Field("WhiteBalance", 8, "I"), "<")>>

VfxFields ==
    <<With(Field("VFXValid", 8, "I"), "<"),
      With(Field("CameraTilt", 8, "l"), "<")>>

SidFields ==
    <<With(Field("SIDValid", 8, "I"), "<"),
      With(Field("SoundTC", 8, "timecode"), "<"),
      [Field("AudioInfo", 12, "string") EXCEPT !.length = 4]>>

NriFields ==
    <<[With(Field("NoiseReductionMode", 8, "I"), "<") EXCEPT
            !.mapping = Mapping(<<[k |-> 0, v |-> "OFF"], [k |-> 1, v |-> "ANR"],
                                  [k |-> 65535, v |-> "OFF"]>>)],
      [With(Field("NoiseReductionApplied", 8, "I"), "<") EXCEPT
            !.mapping = Mapping(<<[k |-> 0, v |-> "OFF"], [k |-> 1, v |-> "ON"]>>)]>>

(* a catalog that repeats a name, as the catalog of src/CDI.py repeats      *)
(* SystemImageTimeZoneDST, here after a descriptor that declares a table    *)
RepeatedFields ==
    <<[With(Field("NoiseReductionMode", 8, "I"), "<") EXCEPT
            !.mapping = Mapping(<<[k |-> 0, v |-> "OFF"], [k |-> 1, v |-> "ANR"],
                                  [k |-> 65535, v |-> "OFF"]>>)],
      With(Field("NoiseReductionApplied", 8, "H"), "<"),
      With(Field("NoiseReductionMode", 10, "H"), "<")>>

Catalogs == {TestFields, CdiFields, LdiFields, CidFields, FliFields, RepeatedFields}

Names(flds) == {flds[i].name : i \in 1..Len(flds)}

(* the allow-lists tried on a catalog: None, and the strict subsets of its   *)
(* names found at some places                                               *)
AllowListsOf(flds) ==
    {AllFields} \cup {Only({flds[i].name : i \in I}) : I \in {{1}, {2}, {1, 3}}}

AllowLists == UNION {AllowListsOf(flds) : flds \in Catalogs}

----------------------------------------------------------------------------
(* the extractor: one reader object over one stream *)

(* the attributes BinaryFileDTO.__init__ assigns, in the order it does *)
Attributes == <<"file", "fields_to_extract", "endianness", "fields", "data">>

(* no extract_metadata() call has returned yet *)
NoCall == [ok |-> FALSE, err |-> "no call", val |-> <<>>, pos |-> 0]

get_data(d) == d

(* BinaryFileDTO.__init__ has run: the stream is wrapped, the allow-list    *)
(* stored, the byte order detected (the cursor is behind the order word),   *)
(* fields and data are empty                                                *)
Init ==
    /\ extractors = <<>> /\ cursors = <<>>
    /\ file \in Streams
    /\ fields_to_extract \in AllowLists
    /\ endianness = _determine_endianness(file).val
    /\ pos = _determine_endianness(file).pos
    /\ fields = <<>>
    /\ data = <<>>
    /\ phase = "base"
    /\ ret = NoCall
    /\ op = "__init__"
    /\ attrs = {Attributes[i] : i \in 1..5}
    /\ rawdata = <<>> /\ objects = <<>> /\ dictionary = <<>> /\ agg = "idle"
    /\ arg = <<>> /\ result = NoCall

(* the rest of a block reader's constructor: the catalog is assigned and    *)
(* the result of extract_metadata() stored in data; a failure leaves the    *)
(* constructor, and no reader exists                                        *)
BlockReaderInit(catalog) ==
    /\ phase = "base"
    /\ fields_to_extract \in AllowListsOf(catalog)
    /\ fields' = catalog
    /\ ret' = extract_metadata(file, pos, catalog, fields_to_extract, endianness)
    /\ pos' = ret'.pos
    /\ data' = IF ret'.ok THEN ret'.val ELSE data
    /\ phase' = IF ret'.ok THEN "reader" ELSE "raised"
    /\ op' = "__init__"
    /\ UNCHANGED <<file, fields_to_extract, endianness, attrs>>
    /\ UNCHANGED aggregatorVars /\ UNCHANGED parallelVars /\ UNCHANGED decoderVars

ExtractMetadata_consuming ==
    /\ phase = "reader"
    /\ ret' = extract_metadata(file, pos, fields, fields_to_extract, endianness)
    /\ pos' = ret'.pos
    /\ fields' = SelectSeq(fields, LAMBDA field : ~Selected(field, fields_to_extract))
    /\ op' = "extract_metadata"
    /\ UNCHANGED <<file, fields_to_extract, endianness, data, phase, attrs>>
    /\ UNCHANGED aggregatorVars /\ UNCHANGED parallelVars /\ UNCHANGED decoderVars

ExtractMetadata_storing ==
    /\ phase = "reader"
    /\ ret' = extract_metadata(file, pos, fields, fields_to_extract, endianness)
    /\ pos' = ret'.pos
    /\ data' = IF ret'.ok THEN ret'.val ELSE data
    /\ op' = "extract_metadata"
    /\ UNCHANGED <<file, fields_to_extract, endianness, fields, phase, attrs>>
    /\ UNCHANGED aggregatorVars /\ UNCHANGED parallelVars /\ UNCHANGED decoderVars

(* a call of extract_metadata() on the reader: the map is returned, data is *)
(* not assigned                                                             *)
ExtractMetadata ==
    /\ phase = "reader"
    /\ ret' = extract_metadata(file, pos, fields, fields_to_extract, endianness)
    /\ pos' = ret'.pos
    /\ op' = "extract_metadata"
    /\ UNCHANGED <<file, fields_to_extract, endianness, fields, data, phase, attrs>>
    /\ UNCHANGED aggregatorVars /\ UNCHANGED parallelVars /\ UNCHANGED decoderVars

(* the caller assigns another allow-list to the reader *)
SetFieldsToExtract(allow) ==
    /\ phase = "reader"
    /\ allow \in AllowListsOf(fields)
    /\ allow # fields_to_extract
    /\ fields_to_extract' = allow
    /\ op' = "fields_to_extract"
    /\ UNCHANGED <<file, pos, endianness, fields, data, phase, ret, attrs>>
    /\ UNCHANGED aggregatorVars /\ UNCHANGED parallelVars /\ UNCHANGED decoderVars

(* a call of _determine_endianness() on the reader: it moves the cursor *)
DetermineEndianness ==
    /\ phase = "reader"
    /\ op # "_determine_endianness"
    /\ pos' = _determine_endianness(file).pos
    /\ op' = "_determine_endianness"
    /\ UNCHANGED <<file, fields_to_extract, endianness, fields, data, phase, ret, attrs>>
    /\ UNCHANGED aggregatorVars /\ UNCHANGED parallelVars /\ UNCHANGED decoderVars

Next ==
    \/ \E catalog \in Catalogs : BlockReaderInit(catalog)
    \/ ExtractMetadata
    \/ \E allow \in AllowLists : SetFieldsToExtract(allow)
    \/ DetermineEndianness

Spec == Init /\ [][Next]_vars

----------------------------------------------------------------------------
(* what the claims speak about *)

(* the state right after an extract_metadata() call returned or raised, the *)
(* constructor's call included                                              *)
Returned == op \in {"__init__", "extract_metadata"} /\ ret # NoCall

(* the extraction of the same reader with no allow-list *)
Unfiltered == extract_metadata(file, pos, fields, AllFields, endianness)

(* every descriptor of the catalog writes its own name and nothing else *)
Plain(flds) == \A i \in 1..Len(flds) : flds[i].datatype \notin {"frameline", "UserString"}

(* C1 as stated: with an allow-list S, a strict subset of the catalog's     *)
(* names, the returned map has exactly the keys S and under each key the    *)
(* value of the extraction with no allow-list, for every catalog.           *)
C1_AsStated ==
    (Returned /\ ret.ok /\ Unfiltered.ok /\ ~fields_to_extract.none) =>
        /\ Keys(ret.val) = fields_to_extract.names
        /\ \A key \in fields_to_extract.names :
              Has(ret.val, key) /\ Has(Unfiltered.val, key)
              /\ Get(ret.val, key) = Get(Unfiltered.val, key)

(* C1, amended: in a catalog whose descriptors each write only their own    *)
(* name (no frame-line, no free-text field; a name may repeat), an          *)
(* extraction with allow-list S that completes returns a map whose key set  *)
(* is exactly S, and each value equals the value of the extraction with no  *)
(* allow-list whenever that extraction completes.                           *)
C1_Filtering ==
    (Returned /\ ret.ok /\ ~fields_to_extract.none /\ Plain(fields)) =>
        /\ Keys(ret.val) = fields_to_extract.names
        /\ Unfiltered.ok =>
              \A key \in fields_to_extract.names :
                  Has(Unfiltered.val, key) /\ Get(ret.val, key) = Get(Unfiltered.val, key)

(* an allow-list naming the repeated name of a catalog was extracted *)
C1_Witness ==
    /\ op = "extract_metadata" /\ ret.ok /\ Unfiltered.ok
    /\ fields = RepeatedFields
    /\ fields_to_extract = Only({"NoiseReductionMode"})
    /\ Keys(ret.val) = {"NoiseReductionMode"}
    /\ Keys(Unfiltered.val) = {"NoiseReductionMode", "NoiseReductionApplied"}

(* the descriptors of the reader's catalog the allow-list selects *)
SelectedPlaces == {i \in 1..Len(fields) : Selected(fields[i], fields_to_extract)}

(* the bytes the decoder of a field reads behind the field's offset; a      *)
(* frame-line reads 40 more when its type word says it is active            *)
Needed(field) ==
    CASE field.datatype \in {"string", "UserString"} -> field.length
      [] field.datatype \in {"timecode", "TStop", "bits", "date", "time", "offset",
                             "frameline", "float"} -> 4
      [] field.datatype = "uuid" -> 16
      [] OTHER -> calcsize(field.datatype)

OutOfRange(field) == field.offset + Needed(field) > Len(file)

(* C2: when a selected field's offset plus the bytes its decoder needs      *)
(* exceeds the length of the buffer, extract_metadata() fails and returns   *)
(* no map.                                                                  *)
C2_OutOfRangeAborts ==
    (Returned /\ \E i \in SelectedPlaces : OutOfRange(fields[i])) => ~ret.ok

(* what the decoder of the field at place i returns on its own *)
Decoded(i) ==
    handle_field(file, seek(pos, fields[i].offset), fields[i],
                 ResolveOrder(fields[i], endianness))

(* the label the table of the field at place i gives its decoded raw value *)
Label(i) ==
    MappingGet(fields[i].mapping.table, Get(Decoded(i).val, fields[i].name))

(* a selected descriptor behind place i writes the key of the field at i *)
WrittenLater(i) ==
    \E j \in SelectedPlaces :
        j > i /\ Decoded(j).ok /\ Has(Decoded(j).val, fields[i].name)

(* C3 as stated: after extract_metadata(), every selected field declaring   *)
(* a table holds under its name table[raw], or "Unknown" when raw is no key *)
(* of the table.                                                            *)
C3_AsStated ==
    (Returned /\ ret.ok) =>
        \A i \in SelectedPlaces :
            ~fields[i].mapping.none =>
                Has(ret.val, fields[i].name) /\ Get(ret.val, fields[i].name) = Label(i)

(* C3, amended: after extract_metadata(), every selected field declaring a  *)
(* table, whose key no later selected descriptor writes again, holds under  *)
(* its name table[raw], or "Unknown" when raw is no key of the table.       *)
C3_Remap ==
    (Returned /\ ret.ok) =>
        \A i \in SelectedPlaces :
            (~fields[i].mapping.none /\ ~WrittenLater(i)) =>
                Has(ret.val, fields[i].name) /\ Get(ret.val, fields[i].name) = Label(i)

(* a raw value in the table and one outside it were remapped *)
C3_Witness ==
    /\ op = "extract_metadata" /\ ret.ok
    /\ fields = TestFields /\ fields_to_extract = AllFields
    /\ Get(Decoded(1).val, "field1") = Num(1)
    /\ Get(ret.val, "field1") = PyStr("One")
    /\ Get(Decoded(2).val, "field2") = Num(0)
    /\ Get(ret.val, "field2") = PyStr("Unknown")

(* two calls ended alike: the same map, or the same failure *)
SameOutcome(a, b) ==
    /\ a.ok = b.ok
    /\ a.err = b.err
    /\ a.ok => a.val = b.val

(* the call that just returned would have ended alike from every cursor *)
CursorIndependent ==
    Returned =>
        \A q \in 0..Len(file) :
            SameOutcome(extract_metadata(file, q, fields, fields_to_extract, endianness), ret)

(* a call following a call, nothing in between, ends as the one before *)
RepeatEqual ==
    (Returned /\ op' = "extract_metadata") => SameOutcome(ret', ret)

(* C4: on one extractor, repeated extract_metadata() calls with the same    *)
(* catalog and allow-list return equal maps, and the result does not depend *)
(* on where the stream cursor was left.                                     *)
C4_Idempotence == []CursorIndependent /\ [][RepeatEqual]_vars

(* a call made with the cursor where the call before left it, away from the *)
(* offset of the first selected field, returned the constructor's map       *)
C4_Witness ==
    /\ op = "extract_metadata" /\ ret.ok
    /\ fields = LdiFields /\ fields_to_extract = Only({"LensDistanceUnit", "LensIris"})
    /\ Len(ret.val) = 2
    /\ ret.val = data
    /\ pos = 12

(* C6 as stated: after any sequence of extract_metadata() calls, changes of *)
(* the allow-list included, get_data() equals the map the most recent call  *)
(* returned.                                                                *)
C6_AsStated ==
    (phase = "reader" /\ ret.ok) => DictEq(get_data(data), ret.val)

(* the constructor stored the map its extraction returned *)
StoredAtConstruction ==
    (phase = "reader" /\ op = "__init__") => (ret.ok /\ get_data(data) = ret.val)

(* no operation on a constructed reader changes what get_data() returns *)
DataKept == phase = "reader" => get_data(data') = get_data(data)

(* the call following the construction returns what get_data() returns *)
FirstCallAgrees ==
    (phase = "reader" /\ op = "__init__" /\ op' = "extract_metadata") =>
        (ret'.ok /\ DictEq(get_data(data'), ret'.val))

(* C6, amended: get_data() returns the map the extraction run at            *)
(* construction returned; later extract_metadata() calls do not change it,  *)
(* and return an equal map while the allow-list is the one of construction. *)
C6_DataIsConstructionMap ==
    []StoredAtConstruction /\ [][DataKept /\ FirstCallAgrees]_vars

(* a call after a change of the allow-list returned another map than        *)
(* get_data()                                                               *)
C6_Witness ==
    /\ phase = "reader" /\ op = "extract_metadata" /\ ret.ok
    /\ fields = TestFields
    /\ Keys(get_data(data)) = {"field1"}
    /\ Keys(ret.val) = {"field2"}

(* C8: a selected TStop field whose four bytes hold the two's complement of *)
(* -3 at the resolved order decodes to "NearClose".                         *)
C8_NearCloseFromBytes ==
    Returned =>
        \A i \in SelectedPlaces :
            ( /\ fields[i].datatype = "TStop"
              /\ ResolveOrder(fields[i], endianness) = "<"
              /\ read(file, fields[i].offset, 4).bytes = <<253, 255, 255, 255>> ) =>
                ( /\ ret.ok
                  /\ Has(ret.val, fields[i].name)
                  /\ Get(ret.val, fields[i].name) = PyStr("NearClose") )

----------------------------------------------------------------------------
(* the aggregator: ArriRawLegacyMetadataReader over one file *)

(* f.read(4096) *)
HeaderSize == 4096

(* the nine block readers, in the order the constructor appends them *)
Blocks ==
    <<[name |-> "Idi", fields |-> IdiFields], [name |-> "Ici", fields |-> IciFields],
      [name |-> "Cdi", fields |-> CdiFields], [name |-> "Ldi", fields |-> LdiFields],
      [name |-> "Vfx", fields |-> VfxFields], [name |-> "Cid", fields |-> CidFields],
      [name |-> "Sid", fields |-> SidFields], [name |-> "Fli", fields |-> FliFields],
      [name |-> "Nri", fields |-> NriFields]>>

(* the construction of one block reader over the bytes: its data, or the    *)
(* failure that left its constructor                                        *)
BlockData(raw, catalog, allow) ==
    Then(_determine_endianness(raw),
         LAMBDA e : extract_metadata(raw, e.pos, catalog, allow, e.val))

RECURSIVE MergeData(_, _)
MergeData_first_wins(objs, metadata) ==
    IF objs = <<>> THEN metadata
    ELSE MergeData(Tail(objs), Update(get_data(Head(objs).data), metadata))

(* for obj in self.objects: metadata.update(obj.get_data()) *)
MergeData(objs, metadata) ==
    IF objs = <<>> THEN metadata
    ELSE MergeData(Tail(objs), Update(metadata, get_data(Head(objs).data)))

get_dictionary(objs) == MergeData(objs, <<>>)

(* ArriRawLegacyMetadataReader.list_fields:                                 *)
(* for obj in self.objects: fields.extend(obj.list_fields())                *)
RECURSIVE ExtendFields(_, _)
ExtendFields(objs, names) ==
    IF objs = <<>> THEN names
    ELSE ExtendFields(Tail(objs), names \o list_fields(Head(objs).fields))

ArriRawLegacyMetadataReader_list_fields(objs) == ExtendFields(objs, <<>>)

(* the free texts of the aggregated files: the model's, and two whose key   *)
(* is a field name of another block: 'Vari:x;\0' and 'SoundTC:'             *)
AggTexts ==
    Texts \cup {<<86, 97, 114, 105, 58, 120, 59, 0>>,
                <<83, 111, 117, 110, 100, 84, 67, 58>>}

(* what follows the header in a file longer than it *)
Tails == {<<1>>, <<255, 7>>, <<65, 82, 82, 73, 0>>}

(* the files: short ones, and ones of a whole header followed by a tail *)
AggFiles ==
    {SubSeq(Stream(o, w, t), 1, n) :
        o \in OrderWords, w \in Words, t \in AggTexts, n \in {6, 20, MaxLen}}
    \cup {Stream(o, w, t) \o Zeros(HeaderSize - MaxLen) \o tail :
              o \in OrderWords, w \in {<<1, 0, 0, 0>>, <<3, 0, 0, 0>>},
              t \in Texts, tail \in Tails}

(* the allow-lists of the aggregator: None, two subsets, the empty list and *)
(* a list naming a field no catalog declares                                *)
AggAllowLists ==
    {AllFields,
     Only({"Vari", "VarUserInfoFields", "SoundTC", "NoiseReductionMode"}),
     Only({"IDIValid", "Reel", "FrameLine1A", "LensIris"}),
     Only({}),
     Only({"NoSuchField"})}

InitAgg ==
    /\ extractors = <<>> /\ cursors = <<>>
    /\ file \in AggFiles
    /\ fields_to_extract \in AggAllowLists
    /\ rawdata = <<>> /\ objects = <<>> /\ dictionary = <<>> /\ agg = "idle"
    /\ pos = 0 /\ endianness = None /\ fields = <<>> /\ data = <<>>
    /\ phase = "base" /\ ret = NoCall /\ op = "__init__" /\ attrs = {}
    /\ arg = <<>> /\ result = NoCall

(* the block readers constructed before the first failing one *)
Constructed(results) ==
    LET failed == {i \in 1..Len(Blocks) : ~results[i].ok}
        n == IF failed = {} THEN Len(Blocks)
             ELSE (CHOOSE i \in failed : \A j \in failed : i <= j) - 1
    IN  [i \in 1..n |-> [name |-> Blocks[i].name, fields |-> Blocks[i].fields,
                          data |-> results[i].val]]

Built(raw, allow) ==
    Constructed([i \in 1..Len(Blocks) |-> BlockData(raw, Blocks[i].fields, allow)])

ReadHeader_whole(f) == f

(* with open(file_path, 'rb') as f: self.rawdata = f.read(4096) *)
ReadHeader(f) == read(f, 0, HeaderSize).bytes

(* ArriRawLegacyMetadataReader.__init__: the header is read, the nine block *)
(* readers are constructed over it in order; a failing one ends it          *)
AggregatorInit ==
    /\ agg = "idle"
    /\ rawdata' = ReadHeader(file)
    /\ objects' = Built(rawdata', fields_to_extract)
    /\ agg' = IF Len(objects') = Len(Blocks) THEN "built" ELSE "raised"
    /\ UNCHANGED dictionary
    /\ UNCHANGED extractorVars /\ UNCHANGED decoderVars /\ UNCHANGED parallelVars

(* a call of get_dictionary() *)
GetDictionary ==
    /\ agg \in {"built", "merged"}
    /\ dictionary' = get_dictionary(objects)
    /\ agg' = "merged"
    /\ UNCHANGED <<rawdata, objects>>
    /\ UNCHANGED extractorVars /\ UNCHANGED decoderVars /\ UNCHANGED parallelVars

(* a call of list_fields() *)
ListFields ==
    /\ agg \in {"built", "merged"}
    /\ result = NoCall
    /\ result' = Ok(ArriRawLegacyMetadataReader_list_fields(objects), 0)
    /\ UNCHANGED arg
    /\ UNCHANGED extractorVars /\ UNCHANGED aggregatorVars /\ UNCHANGED parallelVars

NextAgg == AggregatorInit \/ GetDictionary \/ ListFields

SpecAgg == InitAgg /\ [][NextAgg]_vars

(* the last block holding a key *)
LastHolder(key) ==
    CHOOSE i \in 1..Len(objects) :
        /\ Has(objects[i].data, key)
        /\ \A j \in 1..Len(objects) : Has(objects[j].data, key) => j <= i

(* C5: get_dictionary() is the merge of the nine block maps in the order    *)
(* IDI, ICI, CDI, LDI, VFX, CID, SID, FLI, NRI: its keys are the union of   *)
(* the blocks' keys, and a key held by several blocks has the value of the  *)
(* last block holding it.                                                   *)
C5_Merge ==
    agg = "merged" =>
        /\ [i \in 1..Len(objects) |-> objects[i].name]
              = <<"Idi", "Ici", "Cdi", "Ldi", "Vfx", "Cid", "Sid", "Fli", "Nri">>
        /\ Keys(dictionary) = UNION {Keys(objects[i].data) : i \in 1..Len(objects)}
        /\ \A key \in Keys(dictionary) :
              Get(dictionary, key) = Get(objects[LastHolder(key)].data, key)

(* the free text of CID wrote the key of a SID field, and SID, the later    *)
(* block, won                                                               *)
C5_Witness ==
    /\ agg = "merged"
    /\ Has(objects[6].data, "SoundTC") /\ Has(objects[7].data, "SoundTC")
    /\ Get(objects[6].data, "SoundTC") = PyStr("")
    /\ Get(objects[7].data, "SoundTC") = PyStr("00:00:00:01")
    /\ Get(dictionary, "SoundTC") = PyStr("00:00:00:01")

(* the free text of CID wrote the key of a CDI field, and CID won *)
C5_WitnessEarlier ==
    /\ agg = "merged"
    /\ Has(objects[3].data, "Vari") /\ Has(objects[6].data, "Vari")
    /\ Get(objects[3].data, "Vari") = PyStr("Valid Image")
    /\ Get(dictionary, "Vari") = PyStr("x")

----------------------------------------------------------------------------
(* the decoders called on their own, each on a stream of its own *)

Call(kind, bytes, positions, byteorder) ==
    [kind |-> kind, bytes |-> bytes, positions |-> positions, byteorder |-> byteorder]

(* order words: every word over the bytes of the two marks and zero *)
OrderBytes == {0, 18, 52, 86, 120}

(* magic words: 'ARRI', zeros, 0xFF *)
Magics == {Magic, <<0, 0, 0, 0>>, <<255, 255, 255, 255>>}

EndiannessCalls ==
    {Call("_determine_endianness", m \o <<a, b, c, d>> \o tail, <<>>, "") :
        m \in Magics, a \in OrderBytes, b \in OrderBytes, c \in OrderBytes,
        d \in OrderBytes, tail \in {<<>>, <<1, 2, 3>>}}

(* four-byte words over 0x00, 0x01, 0xA5 *)
BitWords == {<<a, b, c, d>> : a \in {0, 1, 165}, b \in {0, 1, 165},
                               c \in {0, 1, 165}, d \in {0, 1, 165}}

ReadBitCalls ==
    {Call("_read_bit", w, <<q>>, o) : w \in BitWords, q \in 0..31, o \in {"little", "big"}}

(* declared position lists: single bits, runs, an unsorted list, lists that *)
(* cross a byte                                                             *)
PositionLists ==
    {<<0>>, <<1>>, <<31>>, <<0, 1>>, <<4, 5, 6>>, <<3, 1>>, <<7, 8>>, <<30, 31>>, <<0, 31>>}

ReadBitsCalls ==
    {Call("read_bits", w, P, o) : w \in BitWords, P \in PositionLists, o \in {"little", "big"}}

(* a call of a text decoder: the bytes, the order, and the format and the   *)
(* separator where the decoder takes them                                   *)
FormatCall(kind, bytes, e, format_string, spacer) ==
    [kind |-> kind, bytes |-> bytes, positions |-> <<>>, byteorder |-> e,
     format_string |-> format_string, spacer |-> spacer]

(* BCD bytes: 0x00, 0x12, 0x34, 0x56, 0x78, 0x99, and 0xAB, whose nibbles   *)
(* are no decimal digits                                                    *)
BcdBytes == {0, 18, 52, 86, 120, 153, 171}

BcdCalls ==
    {FormatCall("_bcd_to_str", <<a, b, c, d>>, e, fmt, sp) :
        a \in BcdBytes, b \in BcdBytes, c \in BcdBytes, d \in BcdBytes,
        e \in {"<", ">"}, fmt \in {"date", "time"}, sp \in {"/", ":"}}

(* timecode bytes: 0x00, 0x01, 0x23, 0x45, 0x67, 0xFF *)
TimecodeBytes == {0, 1, 35, 69, 103, 255}

(* a timecode field over a stream of its own, at either resolved order *)
TimecodeField == Field("SoundTC", 0, "timecode")

TimecodeCalls ==
    {Call("_handle_timecode_field", <<a, b, c, d>>, <<>>, e) :
        a \in TimecodeBytes, b \in TimecodeBytes, c \in TimecodeBytes, d \in TimecodeBytes,
        e \in {"<", ">"}}

(* frame-line type words: 1, 2, 0, 3, and 1 in the second and in the last   *)
(* byte                                                                     *)
TypeWords ==
    {<<1, 0, 0, 0>>, <<2, 0, 0, 0>>, <<0, 0, 0, 0>>, <<3, 0, 0, 0>>,
     <<0, 1, 0, 0>>, <<0, 0, 0, 1>>}

(* 32-byte names: three bytes over NUL, 'A', 'B', NUL-padded *)
FrameLineNames ==
    {<<a, b, c>> \o Zeros(29) : a \in {0, 65, 66}, b \in {0, 65, 66}, c \in {0, 65, 66}}

(* Left, Top, Width, Height: 10, 20, 30, 40 and 256, 513, 65535, 1 *)
FrameLineRects == {<<10, 0, 20, 0, 30, 0, 40, 0>>, <<0, 1, 1, 2, 255, 255, 1, 0>>}

(* the lengths a frame-line stream is cut to: inside the type word, behind  *)
(* it, inside the name, inside the integers, behind them, and further       *)
FrameLineLengths == {3, 4, 20, 43, 44, 48}

FrameLineCalls ==
    {Call("_read_frameline", SubSeq(t \o n \o r \o <<7, 7, 7, 7>>, 1, len), <<>>, e) :
        t \in TypeWords, n \in FrameLineNames, r \in FrameLineRects,
        len \in FrameLineLengths, e \in {"<", ">"}}

(* the longest free text *)
MaxText == 6

(* free texts: every string of 'a', ':', ';', ' ' up to the longest, and    *)
(* four texts whose pieces hold several colons: 'a:b:c', 'a:b:c;a:d:e',     *)
(* 'k: v :w:x;y' and 'a:b;a::c'                                             *)
TextChars == {97, 58, 59, 32}

ColonTexts ==
    {<<97, 58, 98, 58, 99>>,
     <<97, 58, 98, 58, 99, 59, 97, 58, 100, 58, 101>>,
     <<107, 58, 32, 118, 32, 58, 119, 58, 120, 59, 121>>,
     <<97, 58, 98, 59, 97, 58, 58, 99>>}

RECURSIVE TextsOfLen(_)
TextsOfLen(n) ==
    IF n = 0 THEN {<<>>} ELSE {Append(t, c) : t \in TextsOfLen(n - 1), c \in TextChars}

UserStrings == UNION {TextsOfLen(n) : n \in 0..MaxText} \cup ColonTexts

SplitCalls == {Call("_split_user_string", t, <<>>, "") : t \in UserStrings}

(* the longest stored string *)
MaxString == 4

(* stored strings: bytes over NUL, 'A', 'B' and 0xC8, which is no ASCII     *)
(* byte, read with a length up to the longest                               *)
StringBytes == {0, 65, 66, 200}

RECURSIVE BytesOfLen(_)
BytesOfLen(n) ==
    IF n = 0 THEN {<<>>} ELSE {Append(t, c) : t \in BytesOfLen(n - 1), c \in StringBytes}

StringCalls ==
    {Call("_read_string", b, <<length>>, e) :
        b \in UNION {BytesOfLen(n) : n \in 0..MaxString}, length \in 0..MaxString,
        e \in {"<", ">"}}

(* raw TStop values: the three named ones, other negative ones, the values  *)
(* of the test and of the model's streams, the last value below 2049000,    *)
(* 2049000, and the largest 4-byte values                                   *)
TStopRaws ==
    {PyNegInt(<<3>>), PyNegInt(<<2>>), PyNegInt(<<1>>)}
    \cup {PyNegInt(Digits(n)) : n \in DOMAIN TStopNegText}
    \cup {Num(n) : n \in DOMAIN TStopText}
    \cup {Num(2049000), PyInt(<<253, 255, 255, 255>>), PyInt(<<255, 255, 255, 255>>)}

TStopCalls ==
    {[kind |-> "_convert_data_to_tstop", raw |-> raw] : raw \in TStopRaws}

(* scaled floats: the bytes 00, 01, 03, E8, FF in every place (1000 is      *)
(* E8 03 00 00), whole and cut short, at either order, with three decimals  *)
(* or none, with the unit 'ms' or none; and 24000, 1000, 999, 1001, 994     *)
(* with two decimals                                                        *)
FloatBytes == {0, 1, 3, 232, 255}

FloatCalls ==
    {[kind |-> "_handle_float_field", bytes |-> SubSeq(<<a, b, c, d>>, 1, n), byteorder |-> e,
      decimals |-> dec, unit |-> u] :
        a \in FloatBytes, b \in FloatBytes, c \in FloatBytes, d \in FloatBytes,
        n \in {3, 4}, e \in {"<", ">"}, dec \in {NoDecimals, Decimals(3)}, u \in {None, "ms"}}
    \cup {[kind |-> "_handle_float_field", bytes |-> w, byteorder |-> "<",
           decimals |-> Decimals(2), unit |-> u] :
              w \in {<<192, 93, 0, 0>>, <<232, 3, 0, 0>>, <<231, 3, 0, 0>>, <<233, 3, 0, 0>>,
                      <<226, 3, 0, 0>>},
              u \in {None, "ms"}}

InitDec ==
    /\ extractors = <<>> /\ cursors = <<>>
    /\ \/ arg \in EndiannessCalls
       \/ arg \in ReadBitCalls
       \/ arg \in ReadBitsCalls
       \/ arg \in BcdCalls
       \/ arg \in TimecodeCalls
       \/ arg \in FrameLineCalls
       \/ arg \in SplitCalls
       \/ arg \in StringCalls
       \/ arg \in TStopCalls
       \/ arg \in FloatCalls
    /\ result = NoCall
    /\ file = <<>> /\ fields_to_extract = AllFields
    /\ rawdata = <<>> /\ objects = <<>> /\ dictionary = <<>> /\ agg = "idle"
    /\ pos = 0 /\ endianness = None /\ fields = <<>> /\ data = <<>>
    /\ phase = "base" /\ ret = NoCall /\ op = "__init__" /\ attrs = {}

CallDetermineEndianness ==
    /\ arg.kind = "_determine_endianness" /\ result = NoCall
    /\ result' = _determine_endianness(arg.bytes)
    /\ UNCHANGED arg
    /\ UNCHANGED extractorVars /\ UNCHANGED aggregatorVars /\ UNCHANGED parallelVars

CallReadBit ==
    /\ arg.kind = "_read_bit" /\ result = NoCall
    /\ result' = _read_bit(arg.bytes, 0, arg.positions[1], arg.byteorder)
    /\ UNCHANGED arg
    /\ UNCHANGED extractorVars /\ UNCHANGED aggregatorVars /\ UNCHANGED parallelVars

CallReadBits ==
    /\ arg.kind = "read_bits" /\ result = NoCall
    /\ result' = read_bits(arg.bytes, 0, arg.byteorder, arg.positions)
    /\ UNCHANGED arg
    /\ UNCHANGED extractorVars /\ UNCHANGED aggregatorVars /\ UNCHANGED parallelVars

CallBcdToStr ==
    /\ arg.kind = "_bcd_to_str" /\ result = NoCall
    /\ result' = Ok(PyStr(_bcd_to_str(arg.bytes, arg.format_string, arg.spacer,
                                      arg.byteorder, "")), 0)
    /\ UNCHANGED arg
    /\ UNCHANGED extractorVars /\ UNCHANGED aggregatorVars /\ UNCHANGED parallelVars

CallHandleTimecode ==
    /\ arg.kind = "_handle_timecode_field" /\ result = NoCall
    /\ result' = _handle_timecode_field(arg.bytes, 0, TimecodeField, arg.byteorder)
    /\ UNCHANGED arg
    /\ UNCHANGED extractorVars /\ UNCHANGED aggregatorVars /\ UNCHANGED parallelVars

CallReadFrameline ==
    /\ arg.kind = "_read_frameline" /\ result = NoCall
    /\ result' = _read_frameline(arg.bytes, 0, "1A", arg.byteorder)
    /\ UNCHANGED arg
    /\ UNCHANGED extractorVars /\ UNCHANGED aggregatorVars /\ UNCHANGED parallelVars

CallSplitUserString ==
    /\ arg.kind = "_split_user_string" /\ result = NoCall
    /\ result' = Ok(_split_user_string(arg.bytes), 0)
    /\ UNCHANGED arg
    /\ UNCHANGED extractorVars /\ UNCHANGED aggregatorVars /\ UNCHANGED parallelVars

CallReadString ==
    /\ arg.kind = "_read_string" /\ result = NoCall
    /\ result' = _read_string(arg.bytes, 0, arg.positions[1], arg.byteorder)
    /\ UNCHANGED arg
    /\ UNCHANGED extractorVars /\ UNCHANGED aggregatorVars /\ UNCHANGED parallelVars

CallConvertDataToTstop ==
    /\ arg.kind = "_convert_data_to_tstop" /\ result = NoCall
    /\ result' = _convert_data_to_tstop(arg.raw)
    /\ UNCHANGED arg
    /\ UNCHANGED extractorVars /\ UNCHANGED aggregatorVars /\ UNCHANGED parallelVars

CallHandleFloat ==
    /\ arg.kind = "_handle_float_field" /\ result = NoCall
    /\ result' = handle_field(arg.bytes, 0,
                               [With(Field("ExposureTime", 0, "float"), arg.byteorder) EXCEPT
                                   !.decimals = arg.decimals, !.unit = arg.unit],
                               arg.byteorder)
    /\ UNCHANGED arg
    /\ UNCHANGED extractorVars /\ UNCHANGED aggregatorVars /\ UNCHANGED parallelVars

NextDec ==
    \/ CallDetermineEndianness
    \/ CallReadBit
    \/ CallReadBits
    \/ CallBcdToStr
    \/ CallHandleTimecode
    \/ CallReadFrameline
    \/ CallSplitUserString
    \/ CallReadString
    \/ CallConvertDataToTstop
    \/ CallHandleFloat

SpecDec == InitDec /\ [][NextDec]_vars

(* the call of the harness has returned *)
Done(kind) == arg # <<>> /\ arg.kind = kind /\ result # NoCall

(* C7: on a buffer of at least 8 bytes _determine_endianness() returns '<'  *)
(* exactly when bytes 4..7 are 78 56 34 12, and '>' for every other order   *)
(* word, whatever the four magic bytes are.                                 *)
C7_Endianness ==
    Done("_determine_endianness") =>
        /\ result.ok
        /\ result.val \in {"<", ">"}
        /\ result.val = "<" <=> SubSeq(arg.bytes, 5, 8) = <<120, 86, 52, 18>>
        /\ \A m \in Magics :
              _determine_endianness(m \o SubSeq(arg.bytes, 5, Len(arg.bytes))) = result

(* little-endian was detected behind a magic word that is not 'ARRI' *)
C7_Witness ==
    /\ Done("_determine_endianness")
    /\ result.val = "<"
    /\ SubSeq(arg.bytes, 1, 4) = <<255, 255, 255, 255>>

(* bit j of the unsigned 32-bit value four bytes encode in an order *)
BitOfWord(bytes, byteorder, j) ==
    LET byte == IF byteorder = "little" THEN bytes[(j \div 8) + 1] ELSE bytes[4 - (j \div 8)]
    IN  (byte \div (2 ^ (j % 8))) % 2

(* C10: for every 4-byte input, bit position p in 0..31 and byte order,     *)
(* _read_bit returns bit p of the unsigned 32-bit value the bytes encode in *)
(* that order, so 0 or 1.                                                   *)
C10_SingleBit ==
    Done("_read_bit") =>
        /\ result.ok
        /\ result.val = Num(BitOfWord(arg.bytes, arg.byteorder, arg.positions[1]))
        /\ result.val \in {Num(0), Num(1)}

(* the cases of the test: 01 00 00 00 little-endian, bit 0, gives 1 *)
C10_Witness ==
    /\ Done("_read_bit")
    /\ arg.bytes = <<1, 0, 0, 0>> /\ arg.byteorder = "little" /\ arg.positions = <<0>>
    /\ result.val = Num(1)

Range(positions) == {positions[i] : i \in 1..Len(positions)}

----------------------------------------------------------------------------
(* BCD *)

(* the eight nibbles of four bytes, byte by byte, high nibble first *)
Nibbles(b) ==
    <<b[1] \div 16, b[1] % 16, b[2] \div 16, b[2] % 16,
      b[3] \div 16, b[3] % 16, b[4] \div 16, b[4] % 16>>

AllDecimal(b) == \A i \in 1..8 : Nibbles(b)[i] <= 9

(* the digits of nibbles a..b as text *)
RECURSIVE DigitText(_, _, _)
DigitText(n, a, b) ==
    IF a > b THEN "" ELSE HexDigit[n[a] + 1] \o DigitText(n, a + 1, b)

(* the rendering of a digit string of eight digits *)
Rendered(n, format_string, spacer) ==
    IF format_string = "date"
    THEN DigitText(n, 1, 4) \o spacer \o DigitText(n, 5, 6) \o spacer \o DigitText(n, 7, 8)
    ELSE DigitText(n, 1, 2) \o spacer \o DigitText(n, 3, 4) \o spacer
         \o DigitText(n, 5, 6) \o spacer \o DigitText(n, 7, 8)

(* C11: for four bytes whose nibbles are all decimal digits, _bcd_to_str    *)
(* renders the nibbles in stored byte order at the little-endian order and  *)
(* in reversed byte order at the big-endian order, so the bytes b at the    *)
(* big-endian order give what the reversed bytes give at the little-endian  *)
(* order; 'date' renders the digits [0:4], [4:6], [6:8] and 'time' four     *)
(* groups of two digits, joined by the separator.                           *)
C11_BcdDecode ==
    (Done("_bcd_to_str") /\ AllDecimal(arg.bytes)) =>
        LET b == arg.bytes
            swapped == <<b[4], b[3], b[2], b[1]>>
        IN  /\ result.ok
            /\ result.val =
                  PyStr(Rendered(Nibbles(IF arg.byteorder = "<" THEN b ELSE swapped),
                                 arg.format_string, arg.spacer))
            /\ _bcd_to_str(b, arg.format_string, arg.spacer, ">", "")
                  = _bcd_to_str(swapped, arg.format_string, arg.spacer, "<", "")

(* the bytes 12 34 56 78 as a date at the big-endian order *)
C11_Witness ==
    /\ Done("_bcd_to_str")
    /\ arg.bytes = <<18, 52, 86, 120>> /\ arg.byteorder = ">"
    /\ arg.format_string = "date" /\ arg.spacer = "/"
    /\ result.val = PyStr("7856/34/12")

----------------------------------------------------------------------------
(* timecode *)

(* C12: for every four bytes b0 b1 b2 b3 the timecode decoder returns the   *)
(* two-character lowercase hex of b3, b2, b1, b0 in that order, joined by   *)
(* ':', and the same at either resolved byte order.                         *)
C12_Timecode ==
    Done("_handle_timecode_field") =>
        LET b == arg.bytes
            text == Hex2(b[4]) \o ":" \o Hex2(b[3]) \o ":" \o Hex2(b[2]) \o ":" \o Hex2(b[1])
        IN  /\ result.ok
            /\ result.val = <<[k |-> TimecodeField.name, v |-> PyStr(text)]>>
            /\ result.pos = 4
            /\ _bytes_to_time_code(b) = text
            /\ \A e \in {"<", ">"} :
                  _handle_timecode_field(b, 0, TimecodeField, e).val = result.val

(* the bytes 67 45 23 01 at the little-endian order *)
C12_Witness ==
    /\ Done("_handle_timecode_field")
    /\ arg.bytes = <<103, 69, 35, 1>> /\ arg.byteorder = "<"
    /\ result.val = <<[k |-> "SoundTC", v |-> PyStr("01:23:45:67")]>>

----------------------------------------------------------------------------
(* frame-lines *)

(* the type code: the first four bytes as a little-endian unsigned integer *)
TypeCode == PyInt(Norm(SubSeq(arg.bytes, 1, 4)))

(* the call read a whole type code, and it says active, or inactive *)
Active ==
    Done("_read_frameline") /\ Len(arg.bytes) >= 4 /\ TypeCode \in {Num(1), Num(2)}

Inactive ==
    Done("_read_frameline") /\ Len(arg.bytes) >= 4 /\ TypeCode \notin {Num(1), Num(2)}

(* the six keys of frame-line 1A, in the order they are written *)
FrameLineKeys ==
    <<"FrameLine1AType", "FrameLine1AName", "FrameLine1ALeft", "FrameLine1ATop",
      "FrameLine1AWidth", "FrameLine1AHeight">>

(* the unsigned 16-bit little-endian integer at bytes i, i + 1 *)
Word16(i) == PyInt(Norm(SubSeq(arg.bytes, i, i + 1)))

(* the returned map but for the name, for an active frame-line *)
ActiveRecord(name) ==
    /\ [i \in 1..Len(result.val) |-> result.val[i].k] = FrameLineKeys
    /\ Get(result.val, "FrameLine1AType")
          = PyStr(IF TypeCode = Num(1) THEN "Master" ELSE "Aux")
    /\ Get(result.val, "FrameLine1AName") = PyStr(ToStr(SelectSeq(name, LAMBDA c : c # 0)))
    /\ Get(result.val, "FrameLine1ALeft") = Word16(37)
    /\ Get(result.val, "FrameLine1ATop") = Word16(39)
    /\ Get(result.val, "FrameLine1AWidth") = Word16(41)
    /\ Get(result.val, "FrameLine1AHeight") = Word16(43)
    /\ result.pos = 44

C14_InactiveFrameLine ==
    Inactive =>
        /\ result.ok
        /\ [i \in 1..Len(result.val) |-> result.val[i].k] = FrameLineKeys
        /\ Get(result.val, "FrameLine1AType") = PyStr("Inactive")
        /\ \A i \in 2..6 : result.val[i].v = PyStr("--")
        /\ result.pos = 4
        /\ result = _read_frameline(SubSeq(arg.bytes, 1, 4), 0, "1A", arg.byteorder)

(* a type word holding 1 in its last byte, followed by a name and integers, *)
(* was read as inactive                                                     *)
C14_Witness ==
    /\ Inactive /\ result.ok
    /\ SubSeq(arg.bytes, 1, 4) = <<0, 0, 0, 1>>
    /\ Len(arg.bytes) = 48 /\ arg.bytes[5] = 65
    /\ Get(result.val, "FrameLine1AHeight") = PyStr("--")
    /\ result.pos = 4

----------------------------------------------------------------------------
(* free text *)

(* the places of the character c in a text *)
Places(codes, c) == {i \in 1..Len(codes) : codes[i] = c}

Lowest(S) == CHOOSE i \in S : \A j \in S : i <= j

Highest(S) == CHOOSE i \in S : \A j \in S : j <= i

(* the ';'-separated pieces of the text of the call, each named by the      *)
(* place it starts at: the start of the text, or the place behind a ';'     *)
PieceStarts == {1} \cup {i + 1 : i \in Places(arg.bytes, 59)}

(* the piece starting at a: up to the next ';', or the end of the text *)
PieceFrom(a) ==
    LET later == {i \in Places(arg.bytes, 59) : i >= a}
    IN  SubSeq(arg.bytes, a, IF later = {} THEN Len(arg.bytes) ELSE Lowest(later) - 1)

(* the pieces holding a ':' *)
Pairs == {a \in PieceStarts : Places(PieceFrom(a), 58) # {}}

(* a text without the blanks around it *)
Trimmed(codes) ==
    LET inked == {i \in 1..Len(codes) : codes[i] # 32}
    IN  IF inked = {} THEN "" ELSE ToStr(SubSeq(codes, Lowest(inked), Highest(inked)))

(* the text before the first ':' of a piece, and the text between the first *)
(* ':' and the second, or the end                                           *)
KeyOf(a) == Trimmed(SubSeq(PieceFrom(a), 1, Lowest(Places(PieceFrom(a), 58)) - 1))

ValueOf(a) ==
    LET piece == PieceFrom(a)
        first == Lowest(Places(piece, 58))
        more == Places(piece, 58) \ {first}
    IN  Trimmed(SubSeq(piece, first + 1, IF more = {} THEN Len(piece) ELSE Lowest(more) - 1))

(* C15 as stated: _split_user_string returns exactly one entry for each     *)
(* ';'-separated piece that contains a ':', for a piece with one colon the  *)
(* trimmed text before it as key and the trimmed text after it as value;    *)
(* pieces without ':' contribute nothing and raise no error, and the empty  *)
(* string yields the empty map.                                             *)
C15_AsStated ==
    Done("_split_user_string") =>
        /\ result.ok
        /\ Len(result.val) = Cardinality(Pairs)
        /\ \A a \in Pairs :
              Cardinality(Places(PieceFrom(a), 58)) = 1 =>
                  /\ Has(result.val, KeyOf(a))
                  /\ Get(result.val, KeyOf(a)) = PyStr(ValueOf(a))

(* C15, amended: _split_user_string returns one entry for each distinct     *)
(* trimmed key among the ';'-separated pieces that contain a ':'; the key   *)
(* is the trimmed text before the piece's first colon, the value the        *)
(* trimmed text between the first colon and the second (or the end) of the  *)
(* last piece with that key; the keys stand in the order of their first     *)
(* piece; pieces without ':' contribute nothing and raise no error, and the *)
(* empty string yields the empty map.                                       *)
C15_Split ==
    Done("_split_user_string") =>
        /\ result.ok
        /\ Keys(result.val) = {KeyOf(a) : a \in Pairs}
        /\ Len(result.val) = Cardinality({KeyOf(a) : a \in Pairs})
        /\ \A a \in Pairs :
              (\A b \in Pairs : KeyOf(b) = KeyOf(a) => b <= a) =>
                  Get(result.val, KeyOf(a)) = PyStr(ValueOf(a))
        /\ \A i, j \in 1..Len(result.val) :
              i < j => Lowest({a \in Pairs : KeyOf(a) = result.val[i].k})
                          < Lowest({a \in Pairs : KeyOf(a) = result.val[j].k})
        /\ arg.bytes = <<>> => result.val = <<>>

(* 'a:a;a:' was split: two pieces with the key 'a', one entry, the value of *)
(* the last piece                                                           *)
C15_Witness ==
    /\ Done("_split_user_string")
    /\ arg.bytes = <<97, 58, 97, 59, 97, 58>>
    /\ Cardinality(Pairs) = 2
    /\ result.val = <<[k |-> "a", v |-> PyStr("")]>>

----------------------------------------------------------------------------
(* fixed strings *)

(* the stream of the call holds the bytes of the string, all of them ASCII *)
AsciiInput ==
    /\ Done("_read_string")
    /\ Len(arg.bytes) >= arg.positions[1]
    /\ \A i \in 1..arg.positions[1] : arg.bytes[i] < 128

(* the characters the decoder returns at an order *)
CodesAt(e) == ReadStringCodes(arg.bytes, 0, arg.positions[1], e).codes

(* C16: for every input of length ASCII bytes the decoded text contains no  *)
(* NUL and equals the non-NUL bytes in stored order at the big-endian order *)
(* and in reversed order at the little-endian order; the two decodes of the *)
(* same bytes are reverses of each other.                                   *)
C16_FixedString ==
    AsciiInput =>
        LET stored == SubSeq(arg.bytes, 1, arg.positions[1])
            kept == {i \in 1..Len(stored) : stored[i] # 0}
            text == CodesAt(arg.byteorder)
            place(n) == CHOOSE i \in kept : Cardinality({j \in kept : j <= i}) = n
        IN  /\ result.ok
            /\ result.val = PyStr(ToStr(text))
            /\ result.pos = arg.positions[1]
            /\ \A i \in 1..Len(text) : text[i] # 0
            /\ Len(text) = Cardinality(kept)
            /\ \A n \in 1..Len(text) :
                  text[n] = IF arg.byteorder = ">" THEN stored[place(n)]
                            ELSE stored[place(Len(text) + 1 - n)]
            /\ \A n \in 1..Len(text) : CodesAt("<")[n] = CodesAt(">")[Len(text) + 1 - n]

(* 'A', NUL, 'B', NUL was read at the little-endian order: 'BA' *)
C16_Witness ==
    /\ AsciiInput
    /\ arg.bytes = <<65, 0, 66, 0>> /\ arg.positions = <<4>> /\ arg.byteorder = "<"
    /\ result.val = PyStr("BA")

----------------------------------------------------------------------------
(* TStop conversion *)

(* the texts the statement lists *)
StatedTStops ==
    <<[raw |-> PyNegInt(<<3>>), text |-> "NearClose"], [raw |-> PyNegInt(<<2>>), text |-> "Close"],
      [raw |-> PyNegInt(<<1>>), text |-> "Invalid"], [raw |-> Num(0), text |-> "0.71"],
      [raw |-> Num(1000), text |-> "1.0"], [raw |-> Num(2000), text |-> "1.41"],
      [raw |-> Num(3000), text |-> "2.0"], [raw |-> Num(4000), text |-> "2.83"],
      [raw |-> Num(1500), text |-> "1.19"]>>

(* C17: _convert_data_to_tstop maps raw -3, -2, -1 to "NearClose", "Close", *)
(* "Invalid" and every other raw value to a text, the rounded power of two: *)
(* raw 0, 1000, 2000, 3000, 4000, 1500 give "0.71", "1.0", "1.41", "2.0",   *)
(* "2.83", "1.19".                                                          *)
C17_EveryRawConverts ==
    Done("_convert_data_to_tstop") =>
        /\ result.ok
        /\ result.val.t = "str"
        /\ \A i \in 1..Len(StatedTStops) :
              arg.raw = StatedTStops[i].raw => result.val = PyStr(StatedTStops[i].text)

----------------------------------------------------------------------------
(* list_fields *)

(* the names the nine catalogs declare, block by block *)
DeclaredNames ==
    <<"IDIValid", "ImageWidth",
      "ICIValid", "WhiteBalance",
      "SystemImageCreationDate", "MirrorShutterRunning", "Vari", "UUID",
      "LensDistanceUnit", "LensLinearIris", "LensIris",
      "VFXValid", "CameraTilt",
      "Reel", "VarUserInfoFields", "CameraClipName",
      "SIDValid", "SoundTC", "AudioInfo",
      "FLIValid", "FrameLineFile1", "FrameLine1A",
      "NoiseReductionMode", "NoiseReductionApplied">>

(* the declared names from place a to place b *)
DeclaredFrom(a, b) == SubSeq(DeclaredNames, a, b)

(* C18: list_fields() of a block reader returns the names of all its        *)
(* catalog's descriptors in catalog order, and list_fields() of the         *)
(* aggregator the names of all nine catalogs in block order, whatever the   *)
(* allow-list (None, empty, a subset, one naming unknown fields) and        *)
(* whatever the buffer holds.                                               *)
C18_ListFields ==
    (agg \in {"built", "merged"} /\ result # NoCall) =>
        /\ result.ok
        /\ result.val = DeclaredNames
        /\ Len(objects) = 9
        /\ list_fields(objects[1].fields) = DeclaredFrom(1, 2)
        /\ list_fields(objects[2].fields) = DeclaredFrom(3, 4)
        /\ list_fields(objects[3].fields) = DeclaredFrom(5, 8)
        /\ list_fields(objects[4].fields) = DeclaredFrom(9, 11)
        /\ list_fields(objects[5].fields) = DeclaredFrom(12, 13)
        /\ list_fields(objects[6].fields) = DeclaredFrom(14, 16)
        /\ list_fields(objects[7].fields) = DeclaredFrom(17, 19)
        /\ list_fields(objects[8].fields) = DeclaredFrom(20, 22)
        /\ list_fields(objects[9].fields) = DeclaredFrom(23, 24)

(* an aggregator built with an allow-list naming an unknown field, whose    *)
(* blocks hold no data, listed every declared name                          *)
C18_Witness ==
    /\ agg \in {"built", "merged"} /\ result # NoCall
    /\ fields_to_extract = Only({"NoSuchField"})
    /\ \A i \in 1..Len(objects) : objects[i].data = <<>>
    /\ Len(result.val) = 24
    /\ result.val[1] = "IDIValid" /\ result.val[24] = "NoiseReductionApplied"

----------------------------------------------------------------------------
(* the construction of an extractor: BinaryFileDTO.__init__ on a value *)

(* the types of the values passed as file: bytes; the buffered reader that  *)
(* open(path, 'rb') returns; other byte sequences; other binary streams;    *)
(* values that are neither                                                  *)
ByteSequences == {"bytes", "bytearray"}

BinaryStreams == {"BufferedReader", "BytesIO", "FileIO"}

FileTypes == ByteSequences \cup BinaryStreams \cup {"str", "NoneType"}

Accepted_streams(type) == type \in {"BufferedReader", "BytesIO", "FileIO", "bytes"}

(* isinstance(file, io.BufferedReader) or isinstance(file, bytes) *)
Accepted(type) == type \in {"BufferedReader", "bytes"}

(* what the value holds: nothing, less than the order word, a header of     *)
(* either order, a longer file                                              *)
ConstructorFiles ==
    {SubSeq(Stream(o, <<1, 0, 0, 0>>, <<82, 101, 101, 108, 58, 118, 59, 0>>), 1, n) :
        o \in OrderWords, n \in {0, 6, 8, 20}}

(* the calls: a value of a type, its content, where the cursor of a stream  *)
(* stands, and the allow-list                                               *)
ConstructorCalls ==
    {[kind |-> "__init__", type |-> t, bytes |-> b, cursor |-> c, allow |-> a] :
        t \in FileTypes, b \in ConstructorFiles, c \in {0, 5},
        a \in {AllFields, Only({}), Only({"Reel"})}}

InitNew ==
    /\ extractors = <<>> /\ cursors = <<>>
    /\ arg \in ConstructorCalls
    /\ (arg.type \notin BinaryStreams => arg.cursor = 0)
    /\ (arg.type \in {"str", "NoneType"} => arg.bytes = <<>>)
    /\ phase = "new" /\ attrs = {} /\ result = NoCall
    /\ pos = arg.cursor
    /\ file = <<>> /\ fields_to_extract = AllFields /\ endianness = None
    /\ fields = <<>> /\ data = <<>> /\ ret = NoCall /\ op = "new"
    /\ rawdata = <<>> /\ objects = <<>> /\ dictionary = <<>> /\ agg = "idle"

(* BinaryFileDTO.__init__: the type of file is checked, then file and the   *)
(* allow-list are assigned, the byte order is read from the stream, and     *)
(* fields and data are assigned empty; a raise ends it where it stands      *)
BinaryFileDTOInit ==
    /\ phase = "new"
    /\ op' = "__init__"
    /\ IF ~Accepted(arg.type)
       THEN /\ result' = Raise("TypeError", pos)
            /\ phase' = "raised"
            /\ UNCHANGED <<file, pos, fields_to_extract, endianness, fields, data, attrs>>
       ELSE /\ file' = arg.bytes
            /\ fields_to_extract' = arg.allow
            /\ result' = _determine_endianness(file')
            /\ pos' = result'.pos
            /\ IF result'.ok
               THEN /\ endianness' = result'.val
                    /\ fields' = <<>>
                    /\ data' = <<>>
                    /\ attrs' = {Attributes[i] : i \in 1..5}
                    /\ phase' = "base"
               ELSE /\ attrs' = {Attributes[i] : i \in 1..2}
                    /\ phase' = "raised"
                    /\ UNCHANGED <<endianness, fields, data>>
    /\ UNCHANGED <<ret, arg>>
    /\ UNCHANGED aggregatorVars /\ UNCHANGED parallelVars

NextNew == BinaryFileDTOInit

SpecNew == InitNew /\ [][NextNew]_vars

(* C19 as stated: a value that is neither a byte sequence nor an open       *)
(* binary stream fails with a type error before any byte is read and before *)
(* any state exists; a byte sequence or an open binary stream is accepted.  *)
C19_AsStated ==
    phase # "new" =>
        /\ arg.type \notin ByteSequences \cup BinaryStreams =>
              (result.err = "TypeError" /\ pos = arg.cursor /\ attrs = {})
        /\ arg.type \in ByteSequences \cup BinaryStreams => result.err # "TypeError"

(* C19, amended: a value that is neither a bytes object nor a buffered      *)
(* reader (other byte sequences such as a bytearray and other binary        *)
(* streams such as an in-memory or an unbuffered one included) fails with a *)
(* type error before any byte is read and before any attribute exists; a    *)
(* bytes object or a buffered reader passes the type check, and file and    *)
(* the allow-list are assigned before the byte order is read.               *)
C19_BufferType ==
    phase # "new" =>
        /\ ~(arg.type \in {"bytes", "BufferedReader"}) =>
              (result.err = "TypeError" /\ pos = arg.cursor /\ attrs = {})
        /\ arg.type \in {"bytes", "BufferedReader"} =>
              /\ result.err # "TypeError"
              /\ {"file", "fields_to_extract"} \subseteq attrs
              /\ file = arg.bytes /\ fields_to_extract = arg.allow
              /\ result.ok <=> (attrs = {Attributes[i] : i \in 1..5} /\ phase = "base")

(* an in-memory binary stream holding a whole header was refused, its       *)
(* cursor where it stood                                                    *)
C19_Witness ==
    /\ phase = "raised"
    /\ arg.type = "BytesIO" /\ Len(arg.bytes) = 20 /\ arg.cursor = 5
    /\ result.err = "TypeError"
    /\ pos = 5 /\ attrs = {}

----------------------------------------------------------------------------
(* catalog order and overwrite *)

(* the selected descriptors whose decoder writes a key *)
Writers(key) == {i \in SelectedPlaces : Has(Decoded(i).val, key)}

(* the value the descriptor at place i leaves under a key it writes: the    *)
(* label under its own name when it declares a table, else what it decoded  *)
Written(i, key) ==
    IF ~fields[i].mapping.none /\ key = fields[i].name THEN Label(i)
    ELSE Get(Decoded(i).val, key)

(* the place of a key in the map a decoder returns *)
PlaceIn(m, key) == CHOOSE n \in 1..Len(m) : m[n].k = key

(* the key a is written for the first time before the key b is *)
FirstWrittenBefore(a, b) ==
    LET i == Lowest(Writers(a))
        j == Lowest(Writers(b))
    IN  i < j \/ (i = j /\ PlaceIn(Decoded(i).val, a) < PlaceIn(Decoded(i).val, b))

(* C20: within one extraction the descriptors are processed in catalog      *)
(* order, the keys of the result stand in the order in which they were      *)
(* first written, and a key written by two selected descriptors keeps the   *)
(* value of the one that comes later in the catalog.                        *)
C20_OrderAndOverwrite ==
    (Returned /\ ret.ok) =>
        /\ Keys(ret.val) = UNION {Keys(Decoded(i).val) : i \in SelectedPlaces}
        /\ Len(ret.val) = Cardinality(Keys(ret.val))
        /\ \A a, b \in 1..Len(ret.val) :
              a < b => FirstWrittenBefore(ret.val[a].k, ret.val[b].k)
        /\ \A key \in Keys(ret.val) :
              Get(ret.val, key) = Written(Highest(Writers(key)), key)
        /\ SelectedPlaces # {} => ret.pos = Decoded(Highest(SelectedPlaces)).pos

(* the repeated name was written by the first and by the third descriptor:  *)
(* its key stands first, and its value is the third descriptor's            *)
C20_Witness ==
    /\ Returned /\ ret.ok
    /\ fields = RepeatedFields /\ fields_to_extract = AllFields
    /\ Writers("NoiseReductionMode") = {1, 3}
    /\ Label(1) = PyStr("ANR")
    /\ ret.val = <<[k |-> "NoiseReductionMode", v |-> Num(0)],
                   [k |-> "NoiseReductionApplied", v |-> Num(1)]>>

----------------------------------------------------------------------------
(* the aggregator depends on the header only *)

(* two files agree on their first HeaderSize bytes *)
SameHeader(f, g) ==
    /\ Min(Len(f), HeaderSize) = Min(Len(g), HeaderSize)
    /\ SubSeq(f, 1, Min(Len(f), HeaderSize)) = SubSeq(g, 1, Min(Len(g), HeaderSize))

(* C21: the aggregator holds the first 4096 bytes of its file and nothing   *)
(* else, and every file that agrees with it on those bytes gives, with the  *)
(* same allow-list, the same block readers and the same get_dictionary()    *)
(* result, whatever follows the header in either file.                      *)
C21_HeaderOnly ==
    agg # "idle" =>
        /\ rawdata = SubSeq(file, 1, Min(Len(file), HeaderSize))
        /\ \A g \in AggFiles :
              SameHeader(file, g) =>
                  /\ Built(ReadHeader(g), fields_to_extract) = objects
                  /\ agg = "merged" =>
                        get_dictionary(Built(ReadHeader(g), fields_to_extract)) = dictionary

(* a file with bytes behind its header was merged, and another file with    *)
(* the same header and other bytes behind it is among the files             *)
C21_Witness ==
    /\ agg = "merged"
    /\ Len(file) > HeaderSize
    /\ Len(rawdata) = HeaderSize
    /\ dictionary # <<>>
    /\ \E g \in AggFiles : g # file /\ SameHeader(file, g) /\ Len(g) # Len(file)

----------------------------------------------------------------------------
(* frame-lines and the resolved byte order *)

(* the same call at the other order *)
AtOtherOrder ==
    _read_frameline(arg.bytes, 0, "1A", IF arg.byteorder = "<" THEN ">" ELSE "<")

(* the non-NUL bytes of the 32-byte name, as stored *)
StoredName == SelectSeq(SubSeq(arg.bytes, 5, 36), LAMBDA c : c # 0)

----------------------------------------------------------------------------
(* the length of the BCD digit string *)

(* C23: for every four bytes, whatever their nibbles, each byte gives two   *)
(* characters, the digit string has eight characters, a 'date' is 4         *)
(* characters, separator, 2, separator, 2, and a 'time' four groups of 2    *)
(* characters.                                                              *)
C23_EightDigits ==
    Done("_bcd_to_str") =>
        /\ \A i \in 1..4 : Len(DecimalDigits(arg.bytes)[i]) = 2
        /\ Len(Concat(DecimalDigits(arg.bytes))) = 8
        /\ result.ok
        /\ Len(result.val.s) = IF arg.format_string = "date" THEN 10 ELSE 11

----------------------------------------------------------------------------
(* the byte order handed to a decoder *)

(* the order the field at place i declares, or else the buffer's default *)
Handed(i) ==
    IF fields[i].endianness \in {"<", ">"} THEN fields[i].endianness ELSE endianness

(* the field at place i decoded at that order on its own, and relabelled *)
DecodedAtHanded(i) ==
    Then(handle_field(file, fields[i].offset, fields[i], Handed(i)),
         LAMBDA h : Remap(fields[i], h.val, h.pos))

(* the extraction up to and including the field at place i *)
UpTo(i) == extract_metadata(file, 0, SubSeq(fields, 1, i), fields_to_extract, endianness)

(* the same buffer marked with the other byte order *)
OtherMark(f) ==
    SubSeq(f, 1, 4)
    \o (IF SubSeq(f, 5, 8) = <<120, 86, 52, 18>> THEN <<18, 52, 86, 120>>
        ELSE <<120, 86, 52, 18>>)
    \o SubSeq(f, 9, Len(f))

(* the extraction of the field at place i alone from a buffer *)
Alone(f, i) ==
    extract_metadata(f, 0, <<fields[i]>>, AllFields, _determine_endianness(f).val)

(* C24: every selected field is decoded at the order its descriptor         *)
(* declares, or at the buffer's detected default when it declares none: what *)
(* the extraction holds right after the field is what its decoder gives at  *)
(* that order; and a field declaring an order decodes alike on the buffer   *)
(* and on the same buffer marked with the other order.                      *)
C24_ByteOrder ==
    Returned =>
        \A i \in SelectedPlaces :
            /\ (\A j \in SelectedPlaces : j <= i) => SameOutcome(UpTo(i), ret)
            /\ UpTo(i).ok =>
                  /\ DecodedAtHanded(i).ok
                  /\ \A key \in Keys(DecodedAtHanded(i).val) :
                        Get(UpTo(i).val, key) = Get(DecodedAtHanded(i).val, key)
            /\ fields[i].endianness # None =>
                  /\ _determine_endianness(OtherMark(file)).val # endianness
                  /\ SameOutcome(Alone(OtherMark(file), i), Alone(file, i))

(* on a buffer marked big-endian the word B8 0B 00 00 of a field declaring  *)
(* the little-endian order was decoded as 3000, the TStop "2.0", as it is   *)
(* on the same buffer marked little-endian                                  *)
C24_Witness ==
    /\ op = "extract_metadata" /\ ret.ok
    /\ endianness = ">"
    /\ Len(file) = MaxLen
    /\ SubSeq(file, 9, 12) = <<184, 11, 0, 0>>
    /\ fields = LdiFields /\ fields_to_extract = Only({"LensDistanceUnit", "LensIris"})
    /\ Get(ret.val, "LensIris") = PyStr("2.0")
    /\ _determine_endianness(OtherMark(file)).val = "<"
    /\ Get(Alone(OtherMark(file), 3).val, "LensIris") = PyStr("2.0")

----------------------------------------------------------------------------
(* what an extraction leaves alone *)

(* a step that is a call of extract_metadata() on a reader changes neither  *)
(* the buffer's bytes, nor the catalog, nor the allow-list, nor the default *)
(* order, nor what get_data() returns, nor the set of attributes            *)
ReadOnly ==
    (phase = "reader" /\ op' = "extract_metadata") =>
        /\ file' = file
        /\ fields' = fields
        /\ \A i \in 1..Len(fields) : fields'[i].mapping = fields[i].mapping
        /\ fields_to_extract' = fields_to_extract
        /\ endianness' = endianness
        /\ data' = data
        /\ attrs' = attrs
        /\ phase' = phase

(* C25: a call of extract_metadata() changes nothing but the stream cursor: *)
(* the buffer's bytes, every descriptor of the catalog with its table, the  *)
(* allow-list and the detected default order are after the call what they   *)
(* were before it, whether the call returns a map or fails.                 *)
C25_ReadOnly == [][ReadOnly]_vars

(* a call on a reader failed at its third field, past the end of the        *)
(* buffer, and left the cursor there; the catalog and the map of the        *)
(* construction are still there                                             *)
C25_Witness ==
    /\ op = "extract_metadata" /\ ~ret.ok /\ ret.err = "struct.error"
    /\ phase = "reader"
    /\ fields = TestFields /\ fields_to_extract = AllFields
    /\ Len(file) = 10 /\ pos = 10
    /\ Keys(data) = {"field2"}

----------------------------------------------------------------------------
(* two extractors at work at once: a call of extract_metadata() is a run of *)
(* steps, a seek and a read for each selected field, and the steps of the   *)
(* two calls come in any order                                              *)

Wrap_same(type, t) == 0

(* self.file: the reader itself (stream 0, whoever holds it), or an         *)
(* io.BytesIO of the extractor's own over the bytes (stream t)              *)
Wrap(type, t) == IF type = "BufferedReader" THEN 0 ELSE t

ParCatalogs == {TestFields, LdiFields, CidFields}

ParFiles ==
    {SubSeq(Stream(o, w, <<82, 101, 101, 108, 58, 118, 59, 0>>), 1, n) :
        o \in OrderWords, w \in {<<1, 0, 0, 0>>, <<184, 11, 0, 0>>}, n \in {20, MaxLen}}

(* for field in self.fields: if ... in self.fields_to_extract: the place of *)
(* the next selected descriptor behind place i, 0 when the loop ends        *)
NextPlace(flds, allow, i) ==
    LET later == {j \in (i + 1)..Len(flds) : Selected(flds[j], allow)}
    IN  IF later = {} THEN 0 ELSE CHOOSE j \in later : \A k \in later : j <= k

(* an extractor whose constructor has run, about to run extract_metadata() *)
Extractor(type, t, catalog, allow) ==
    [type |-> type, stream |-> Wrap(type, t), fields |-> catalog,
     fields_to_extract |-> allow,
     pc |-> IF NextPlace(catalog, allow, 0) = 0 THEN "done" ELSE "seek",
     place |-> 0, metadata |-> <<>>, err |-> "", cut |-> FALSE]

InitPar ==
    /\ file \in ParFiles
    /\ endianness = _determine_endianness(file).val
    /\ \E type \in {"bytes", "BufferedReader"}, c1 \in ParCatalogs, c2 \in ParCatalogs :
          \E allow \in {AllFields, Only({c2[2].name})} :
              extractors = <<Extractor(type, 1, c1, AllFields), Extractor(type, 2, c2, allow)>>
    /\ cursors = [stream \in 0..2 |-> _determine_endianness(file).pos]
    /\ pos = 0 /\ fields_to_extract = AllFields /\ fields = <<>> /\ data = <<>>
    /\ phase = "base" /\ ret = NoCall /\ op = "__init__" /\ attrs = {}
    /\ rawdata = <<>> /\ objects = <<>> /\ dictionary = <<>> /\ agg = "idle"
    /\ arg = <<>> /\ result = NoCall

Other(t) == 3 - t

(* a step of the other extractor falls between the seek and the read of x *)
Cut(x) == [x EXCEPT !.cut = @ \/ (x.pc = "read")]

(* self.file.seek(field['offset']) for the next selected field *)
SeekField(t) ==
    LET x == extractors[t]
        place == NextPlace(x.fields, x.fields_to_extract, x.place)
    IN  /\ x.pc = "seek"
        /\ cursors' = [cursors EXCEPT ![x.stream] = seek(@, x.fields[place].offset)]
        /\ extractors' = [extractors EXCEPT
                             ![t] = [x EXCEPT !.place = place, !.pc = "read"],
                             ![Other(t)] = Cut(@)]
        /\ UNCHANGED extractorVars /\ UNCHANGED aggregatorVars /\ UNCHANGED decoderVars

(* metadata.update(self.handle_field(field, endianness)) and the relabelling, *)
(* from where the cursor of the stream stands                                 *)
ReadField(t) ==
    LET x == extractors[t]
        field == x.fields[x.place]
        m == Then(handle_field(file, cursors[x.stream], field, ResolveOrder(field, endianness)),
                  LAMBDA h : Remap(field, Update(x.metadata, h.val), h.pos))
    IN  /\ x.pc = "read"
        /\ cursors' = [cursors EXCEPT ![x.stream] = m.pos]
        /\ extractors' = [extractors EXCEPT
                             ![t] = [x EXCEPT
                                        !.metadata = IF m.ok THEN m.val ELSE <<>>,
                                        !.err = m.err,
                                        !.pc = IF ~m.ok THEN "raised"
                                               ELSE IF NextPlace(x.fields, x.fields_to_extract,
                                                                 x.place) = 0
                                               THEN "done" ELSE "seek"],
                             ![Other(t)] = Cut(@)]
        /\ UNCHANGED extractorVars /\ UNCHANGED aggregatorVars /\ UNCHANGED decoderVars

NextPar == \E t \in 1..2 : SeekField(t) \/ ReadField(t)

SpecPar == InitPar /\ [][NextPar]_vars

(* the call of extractor t has returned or raised *)
Finished(t) == extractors[t].pc \in {"done", "raised"}

Outcome(t) ==
    [ok |-> extractors[t].pc = "done", err |-> extractors[t].err,
     val |-> extractors[t].metadata, pos |-> 0]

(* the same call with no other extractor at work *)
RunAlone(t) ==
    extract_metadata(file, _determine_endianness(file).pos, extractors[t].fields,
                     extractors[t].fields_to_extract, endianness)

(* C26: extractors built from a bytes object each wrap it in a stream of    *)
(* their own, with a cursor of their own, and whatever the order of the     *)
(* seek and read steps of the two calls, each call ends as it ends alone.   *)
C26_Independent ==
    \A t \in 1..2 :
        extractors[t].type = "bytes" =>
            /\ extractors[t].stream # extractors[Other(t)].stream
            /\ Finished(t) => SameOutcome(Outcome(t), RunAlone(t))

(* both calls over one bytes object returned a map, each after steps of the *)
(* other had fallen between its seek and its read                           *)
C26_Witness ==
    /\ extractors # <<>>
    /\ \A t \in 1..2 :
          /\ extractors[t].type = "bytes"
          /\ extractors[t].pc = "done" /\ extractors[t].cut
          /\ extractors[t].metadata # <<>>
    /\ extractors[1].fields = LdiFields /\ extractors[2].fields = CidFields
    /\ cursors[1] # cursors[2]

----------------------------------------------------------------------------
(* two extractors over one stream object *)

(* C30 as stated: two extractors constructed over one open stream each end  *)
(* their call as they end it alone, whatever the order of their steps.      *)
C30_AsStated ==
    \A t \in 1..2 :
        (extractors[t].type = "BufferedReader" /\ Finished(t)) =>
            SameOutcome(Outcome(t), RunAlone(t))

(* C30, amended: two extractors constructed over one open stream hold the   *)
(* same stream object and so one cursor; a call ends as it ends alone when  *)
(* no step of the other extractor fell between the seek and the read of any *)
(* of its fields (a call cut there reads the field from where the other     *)
(* extractor left the cursor).                                              *)
C30_SharedStream ==
    \A t \in 1..2 :
        extractors[t].type = "BufferedReader" =>
            /\ extractors[t].stream = extractors[Other(t)].stream
            /\ (Finished(t) /\ ~extractors[t].cut) => SameOutcome(Outcome(t), RunAlone(t))

(* over one stream the first call, never cut, returned its map, and the     *)
(* second, cut between a seek and a read, returned another map than alone   *)
C30_Witness ==
    /\ extractors # <<>>
    /\ \A t \in 1..2 : extractors[t].type = "BufferedReader" /\ extractors[t].pc = "done"
    /\ ~extractors[1].cut /\ extractors[1].metadata = RunAlone(1).val
    /\ extractors[1].metadata # <<>>
    /\ extractors[2].cut /\ RunAlone(2).ok /\ extractors[2].metadata # RunAlone(2).val

----------------------------------------------------------------------------
(* scaled floats *)

(* the four bytes as the resolved order reads them, least significant first *)
FloatWord == IF arg.byteorder = "<" THEN arg.bytes ELSE Reverse(arg.bytes)

(* the raw value r = 65536 * high + low is 1000 * (65 * high) + 536 * high  *)
(* + low: r div 1000 and r mod 1000                                         *)
RawDiv1000 ==
    LET high == 256 * FloatWord[4] + FloatWord[3]
        low == 256 * FloatWord[2] + FloatWord[1]
    IN  65 * high + ((536 * high + low) \div 1000)

RawMod1000 ==
    LET high == 256 * FloatWord[4] + FloatWord[3]
        low == 256 * FloatWord[2] + FloatWord[1]
    IN  (536 * high + low) % 1000

(* "<r div 1000>.<r mod 1000, three digits>" *)
StatedFloatText ==
    IntText(RawDiv1000) \o "." \o HexDigit[(RawMod1000 \div 100) + 1]
    \o HexDigit[((RawMod1000 \div 10) % 10) + 1] \o HexDigit[(RawMod1000 % 10) + 1]

(* C28: for every four bytes, read as the unsigned value r at the resolved  *)
(* order, a scaled-float field with 3 decimals gives the text               *)
(* "<r div 1000>.<r mod 1000 in three digits>", with a unit u that text, a  *)
(* space and u, and with neither the number r/1000, not a text.             *)
C28_ScaledFloat ==
    (Done("_handle_float_field") /\ Len(arg.bytes) = 4 /\ arg.decimals \in {NoDecimals, Decimals(3)}) =>
        /\ result.ok /\ result.pos = 4
        /\ Len(result.val) = 1 /\ result.val[1].k = "ExposureTime"
        /\ (arg.decimals = Decimals(3) /\ arg.unit = None) =>
              result.val[1].v = PyStr(StatedFloatText)
        /\ (arg.decimals = Decimals(3) /\ arg.unit # None) =>
              result.val[1].v = PyStr(StatedFloatText \o " " \o arg.unit)
        /\ (arg.decimals = NoDecimals /\ arg.unit = None) =>
              /\ result.val[1].v.t = "float"
              /\ result.val[1].v = PyFloat(Norm(FloatWord))

(* the bytes 03 E8 FF FF at the big-endian order, 65601535, with three      *)
(* decimals and the unit: '65601.535 ms'                                    *)
C28_Witness ==
    /\ Done("_handle_float_field")
    /\ arg.bytes = <<3, 232, 255, 255>> /\ arg.byteorder = ">"
    /\ arg.decimals = Decimals(3) /\ arg.unit = "ms"
    /\ result.val[1].v = PyStr("65601.535 ms")

----------------------------------------------------------------------------
(* free-text pieces with several colons *)

(* the pieces holding more than one ':' *)
ManyColons == {a \in Pairs : Cardinality(Places(PieceFrom(a), 58)) > 1}

(* the piece starting at a, up to its second ':' *)
UpToSecondColon(a) ==
    LET colons == Places(PieceFrom(a), 58)
    IN  SubSeq(PieceFrom(a), 1, Lowest(colons \ {Lowest(colons)}) - 1)

(* C29: a piece holding several colons gives an entry whose key is the      *)
(* trimmed text before the first colon and whose value is the trimmed text  *)
(* between the first and the second colon: the piece gives what the piece   *)
(* cut before its second colon gives, without error; and of several pieces  *)
(* with one trimmed key the last one's value is kept.                       *)
C29_SeveralColons ==
    Done("_split_user_string") =>
        /\ result.ok
        /\ \A a \in ManyColons :
              /\ Has(result.val, KeyOf(a))
              /\ _split_user_string(PieceFrom(a)) = _split_user_string(UpToSecondColon(a))
              /\ _split_user_string(PieceFrom(a)) = <<[k |-> KeyOf(a), v |-> PyStr(ValueOf(a))]>>
        /\ \A a \in Pairs :
              (\A b \in Pairs : KeyOf(b) = KeyOf(a) => b <= a) =>
                  Get(result.val, KeyOf(a)) = _split_user_string(PieceFrom(a))[1].v

(* 'a:b:c;a:d:e' was split: one entry, the key 'a', the value 'd' *)
C29_Witness ==
    /\ Done("_split_user_string")
    /\ arg.bytes = <<97, 58, 98, 58, 99, 59, 97, 58, 100, 58, 101>>
    /\ Cardinality(ManyColons) = 2
    /\ result.val = <<[k |-> "a", v |-> PyStr("d")]>>

----------------------------------------------------------------------------
(* the canonical catalogs: the descriptors of the nine block readers, at    *)
(* their offsets in the header                                              *)

(* IDI.py: the 11 descriptors of Idi *)
IdiCatalog ==
    <<With(Field("IDIValid", 16, "I"), "<"),
      With(Field("ImageWidth", 20, "I"), "<"),
      With(Field("ImageHeight", 24, "I"), "<"),
      With(Field("DataType", 28, "I"), "<"),
      With(Field("DataSpace", 32, "I"), "<"),
      With(Field("ActiveImageLeft", 36, "I"), "<"),
      With(Field("ActiveImageTop", 40, "I"), "<"),
      With(Field("ActiveImageWidth", 44, "I"), "<"),
      With(Field("ActiveImageHeight", 48, "I"), "<"),
      With(Field("FullImageWidth", 60, "I"), "<"),
      With(Field("FullImageHeigth", 64, "I"), "<")>>

(* ICI.py: the 31 descriptors of ICI *)
ICICatalog ==
    <<With(Field("ICIValid", 84, "I"), "<"),
      With(Field("ColorProcessingVersion", 88, "I"), "<"),
      With(Field("WhiteBalance", 92, "I"), "<"),
      With(Field("WhiteBalanceCC", 96, "f"), "<"),
      With(Field("WBFactorR", 100, "f"), "<"),
      With(Field("WBFactorG", 104, "f"), "<"),
      With(Field("WBFactorB", 108, "f"), "<"),
      [With(Field("WBAppliedInCamera", 112, "I"), "<") EXCEPT
            !.mapping = Mapping(<<[k |-> 0, v |-> "no"],
                                    [k |-> 1, v |-> "yes"]>>)],
      With(Field("ExposureIndexASA", 116, "I"), "<"),
      [With(Field("TargetColorSpace", 188, "I"), "<") EXCEPT
            !.mapping = Mapping(<<[k |-> 2, v |-> "LogCWGam"]>>)],
      With(Field("Sharpness", 192, "I"), "<"),
      With(Field("LensSqueezeFactor", 196, "f"), "<"),
      [With(Field("ImageOrientation", 200, "I"), "<") EXCEPT
            !.mapping = Mapping(<<[k |-> 0, v |-> "No flip"],
                                    [k |-> 1, v |-> "H flip"],
                                    [k |-> 12, v |-> "H+V flip"]>>)],
      [With(Field("LookName", 204, "string"), ">") EXCEPT
            !.length = 32],
      [With(Field("LookLUTMode", 236, "I"), "<") EXCEPT
            !.mapping = Mapping(<<[k |-> 0, v |-> "ARRI_LOOK_LUT_NO_LUT"],
                                    [k |-> 1, v |-> "ARRI_LOOK_LUT_MONO"],
                                    [k |-> 2, v |-> "ARRI_LOOK_LUT_3D"]>>)],
      With(Field("LookLUTOffset", 240, "I"), "<"),
      With(Field("LookLUTSize", 244, "I"), "<"),
      With(Field("LookSaturation", 248, "f"), "<"),
      With(Field("CDLSaturation", 252, "f"), "<"),
      With(Field("CDLSlopeR", 256, "f"), "<"),
      With(Field("CDLSlopeG", 260, "f"), "<"),
      With(Field("CDLSlopeB", 264, "f"), "<"),
      With(Field("CDLOffsetR", 268, "f"), "<"),
      With(Field("CDLOffsetG", 272, "f"), "<"),
      With(Field("CDLOffsetB", 276, "f"), "<"),
      With(Field("CDLPowerR", 280, "f"), "<"),
      With(Field("CDLPowerG", 284, "f"), "<"),
      With(Field("CDLPowerB", 288, "f"), "<"),
      [With(Field("CDLMode", 304, "I"), "<") EXCEPT
            !.mapping = Mapping(<<[k |-> 0, v |-> "No Look"],
                                    [k |-> 1, v |-> "Alexa Look Video"],
                                    [k |-> 2, v |-> "CDL Video"],
                                    [k |-> 3, v |-> "CDL LogC"]>>)],
      With(Field("ImageDataChecksum", 308, "I"), "<"),
      With(Field("ColorOrder", 312, "I"), "<")>>

(* CDI.py: the 27 descriptors of Cdi *)
CdiCatalog ==
    <<With(Field("CDIValid", 352, "I"), "<"),
      With(Field("CameraTypeId", 356, "I"), "<"),
      With(Field("CameraRevision", 360, "I"), "<"),
      With(Field("CameraSerialNumber", 368, "I"), "<"),
      [With(Field("CameraId", 372, "string"), "<") EXCEPT
            !.length = 4],
      With(Field("CameraIndex", 376, "I"), "<"),
      With(Field("SystemImageCreationTest", 380, "I"), "<"),
      Field("SystemImageCreationDate", 380, "date"),
      Field("SystemImageCreationTime", 384, "time"),
      [Field("SystemImageTimeZoneOffset", 388, "offset") EXCEPT
            !.prefix = "UTC+"],
      [Field("SystemImageTimeZoneDST", 392, "offset") EXCEPT
            !.prefix = "+"],
      [With(Field("ExposureTime", 396, "float"), "<") EXCEPT
            !.unit = "ms",
            !.decimals = Decimals(3)],
      [With(Field("ShutterAngle", 400, "float"), "<") EXCEPT
            !.decimals = Decimals(2)],
      [With(Field("SensorFPS", 416, "float"), "<") EXCEPT
            !.decimals = Decimals(3)],
      [With(Field("ProjectFPS", 420, "float"), "<") EXCEPT
            !.decimals = Decimals(3)],
      Field("MasterTC", 424, "timecode"),
      With(Field("MasterTCFrameCount", 428, "I"), "<"),
      [With(Field("MasterTCTimeBase", 432, "float"), "<") EXCEPT
            !.decimals = Decimals(3)],
      With(Field("StorageMediaSerialNumber", 616, "Q"), "<"),
      [With(Field("CameraFamily", 668, "string"), ">") EXCEPT
            !.length = 8],
      [With(Field("RecorderType", 676, "string"), ">") EXCEPT
            !.length = 32],
      [With(Field("MirrorShutterRunning", 708, "bits"), "<") EXCEPT
            !.bit_position = 0,
            !.mapping = Mapping(<<[k |-> 0, v |-> "no"],
                                    [k |-> 1, v |-> "yes"]>>)],
      [With(Field("Vari", 708, "bits"), "<") EXCEPT
            !.bit_position = 1,
            !.mapping = Mapping(<<[k |-> 0, v |-> "Valid Image"],
                                    [k |-> 1, v |-> "Duplicate Image"]>>)],
      Field("UUID", 720, "uuid"),
      [With(Field("CameraModel", 760, "string"), ">") EXCEPT
            !.length = 20],
      With(Field("CameraProduct", 780, "H"), "<"),
      With(Field("CameraSubProduct", 782, "H"), "<")>>

(* LDI.py: the 30 descriptors of LDI *)
LDICatalog ==
    <<With(Field("LDIValid", 880, "I"), "<"),
      [With(Field("LensDistanceUnit", 884, "I"), "<") EXCEPT
            !.mapping = Mapping(<<[k |-> 0, v |-> "Inch"],
                                    [k |-> 1, v |-> "Meter"],
                                    [k |-> 2, v |-> "Default Unit"]>>)],
      With(Field("LensFocusDistance", 888, "I"), "<"),
      [With(Field("LensFocalLength", 892, "float"), "<") EXCEPT
            !.decimals = Decimals(2)],
      With(Field("LensSerialNumber", 896, "I"), "<"),
      With(Field("LensLinearIris", 900, "I"), "<"),
      With(Field("LensIris", 900, "TStop"), "<"),
      [With(Field("NDFilterType", 904, "H"), "<") EXCEPT
            !.mapping = Mapping(<<[k |-> 0, v |-> "No Filter"],
                                    [k |-> 1, v |-> "ND 0.3 Rev A"],
                                    [k |-> 2, v |-> "ND 0.6 Rev A"],
                                    [k |-> 3, v |-> "ND 1.2 Rev A"],
                                    [k |-> 4, v |-> "ND 2.1 Rev A"]>>)],
      With(Field("NDFilterDensity", 906, "H"), "<"),
      [With(Field("LensModel", 920, "string"), ">") EXCEPT
            !.length = 32],
      With(Field("RawEncoderFocusRawLds", 952, "H"), "<"),
      With(Field("RawEncoderFocusRawMotor", 954, "H"), "<"),
      With(Field("RawEncoderFocalRawLds", 956, "H"), "<"),
      With(Field("RawEncoderFocalRawMotor", 958, "H"), "<"),
      With(Field("RawEncoderIrisRawLds", 960, "H"), "<"),
      With(Field("RawEncoderIrsRawMotor", 962, "H"), "<"),
      With(Field("EncoderLimFocusLdsMin", 964, "H"), "<"),
      With(Field("EncoderLimFocusLdsMax", 966, "H"), "<"),
      With(Field("EncoderLimFocalLdsMin", 968, "H"), "<"),
      With(Field("EncoderLimFocalLdsMax", 970, "H"), "<"),
      With(Field("EncoderLimIrisLdsMin", 972, "H"), "<"),
      With(Field("EncoderLimIrisLdsMax", 974, "H"), "<"),
      With(Field("EncoderLimFocusMotorMin", 976, "H"), "<"),
      With(Field("EncoderLimFocusMotorMax", 978, "H"), "<"),
      With(Field("EncoderLimFocalMotorMin", 980, "H"), "<"),
      With(Field("EncoderLimFocalMotorMax", 982, "H"), "<"),
      With(Field("EncoderLimIrisMotorMin", 984, "H"), "<"),
      With(Field("EncoderLimIrissMotorMax", 986, "H"), "<"),
      [With(Field("LdsLagType", 988, "B"), "<") EXCEPT
            !.mapping = Mapping(<<[k |-> 0, v |-> "no lag"],
                                    [k |-> 1, v |-> "constant lag"],
                                    [k |-> 2, v |-> "unknown lag"]>>)],
      With(Field("LdsLagValue", 989, "B"), "<")>>

(* VFX.py: the 11 descriptors of VFX *)
VFXCatalog ==
    <<With(Field("VFXValid", 1080, "I"), "<"),
      With(Field("GPSLatitude", 1084, "q"), "<"),
      With(Field("GPSLongitude", 1092, "q"), "<"),
      With(Field("CameraX", 1100, "f"), "<"),
      With(Field("CameraY", 1104, "f"), "<"),
      With(Field("CameraZ", 1108, "f"), "<"),
      With(Field("CameraPan", 1112, "f"), "<"),
      With(Field("CameraTilt", 1116, "l"), "<"),
      With(Field("CameraRoll", 1120, "l"), "<"),
      [With(Field("MasterSlaveSetupInfo", 1124, "H"), "<") EXCEPT
            !.mapping = Mapping(<<[k |-> 0, v |-> "independent"],
                                    [k |-> 1, v |-> "master"],
                                    [k |-> 2, v |-> "slave"],
                                    [k |-> 65535, v |-> "--"]>>)],
      [With(Field("3DEyeInfo", 1128, "H"), "<") EXCEPT
            !.mapping = Mapping(<<[k |-> 0, v |-> "single"],
                                    [k |-> 1, v |-> "left eye"],
                                    [k |-> 2, v |-> "right eye"],
                                    [k |-> 65535, v |-> "--"]>>)]>>

(* CID.py: the 11 descriptors of CID *)
CIDCatalog ==
    <<With(Field("CIDValid", 1264, "I"), "<"),
      With(Field("CircleTake", 1268, "B"), "<"),
      [Field("Reel", 1272, "string") EXCEPT
            !.length = 8],
      [Field("Scene", 1280, "string") EXCEPT
            !.length = 16],
      [Field("Take", 1296, "string") EXCEPT
            !.length = 8],
      [Field("Director", 1304, "string") EXCEPT
            !.length = 24],
      [Field("Cinematographer", 1336, "string") EXCEPT
            !.length = 24],
      [Field("Production", 1368, "string") EXCEPT
            !.length = 24],
      [Field("ProductionCompany", 1400, "string") EXCEPT
            !.length = 24],
      [Field("VarUserInfoFields", 1432, "UserString") EXCEPT
            !.length = 256],
      [Field("CameraClipName", 1688, "string") EXCEPT
            !.length = 20]>>

(* SID.py: the 7 descriptors of Sid *)
SidCatalog ==
    <<With(Field("SIDValid", 1816, "I"), "<"),
      With(Field("SoundTC", 1820, "timecode"), "<"),
      [Field("SoundFileName", 1836, "string") EXCEPT
            !.length = 32],
      [Field("SoundRollName", 1868, "string") EXCEPT
            !.length = 32],
      [Field("SoundSceneName", 1900, "string") EXCEPT
            !.length = 32],
      [Field("SoundTakeName", 1932, "string") EXCEPT
            !.length = 32],
      [Field("AudioInfo", 1964, "string") EXCEPT
            !.length = 32]>>

(* FLI.py: the 9 descriptors of Fli *)
FliCatalog ==
    <<With(Field("FLIValid", 1816, "I"), "<"),
      [Field("FrameLineFile1", 2128, "string") EXCEPT
            !.length = 32],
      [Field("FrameLineFile2", 2160, "string") EXCEPT
            !.length = 32],
      [Field("FrameLine1A", 2192, "frameline") EXCEPT
            !.number = "1A"],
      [Field("FrameLine1B", 2240, "frameline") EXCEPT
            !.number = "1B"],
      [Field("FrameLine1C", 2288, "frameline") EXCEPT
            !.number = "1C"],
      [Field("FrameLine2A", 2336, "frameline") EXCEPT
            !.number = "2A"],
      [Field("FrameLine2B", 2384, "frameline") EXCEPT
            !.number = "2B"],
      [Field("FrameLine2C", 2432, "frameline") EXCEPT
            !.number = "2C"]>>

(* NRI.py: the 3 descriptors of Nri *)
NriCatalog ==
    <<[With(Field("NoiseReductionMode", 2520, "I"), "<") EXCEPT
            !.mapping = Mapping(<<[k |-> 0, v |-> "OFF"],
                                    [k |-> 1, v |-> "ANR"],
                                    [k |-> 65535, v |-> "OFF"]>>)],
      With(Field("NoiseReductionStrength", 2524, "f"), "<"),
      [With(Field("NoiseReductionApplied", 2528, "I"), "<") EXCEPT
            !.mapping = Mapping(<<[k |-> 0, v |-> "OFF"],
                                    [k |-> 1, v |-> "ON"]>>)]>>

(* the nine block readers of the aggregator with their catalogs, in the     *)
(* order the constructor appends them                                       *)
CanonicalBlocks ==
    <<[name |-> "Idi", fields |-> IdiCatalog], [name |-> "Ici", fields |-> ICICatalog],
      [name |-> "Cdi", fields |-> CdiCatalog], [name |-> "Ldi", fields |-> LDICatalog],
      [name |-> "Vfx", fields |-> VFXCatalog], [name |-> "Cid", fields |-> CIDCatalog],
      [name |-> "Sid", fields |-> SidCatalog], [name |-> "Fli", fields |-> FliCatalog],
      [name |-> "Nri", fields |-> NriCatalog]>>

(* every descriptor of the nine catalogs *)
CanonicalFields ==
    UNION {{CanonicalBlocks[i].fields[j] : j \in 1..Len(CanonicalBlocks[i].fields)} :
              i \in 1..Len(CanonicalBlocks)}

(* the descriptor of a name *)
Descriptor(name) == CHOOSE field \in CanonicalFields : field.name = name

(* the bytes the decoder of a field consumes at most: a frame-line reads    *)
(* its type word, its 32-byte name and four 16-bit words                    *)
Consumed(field) ==
    IF field.datatype = "frameline"
    THEN calcsize("I") + 32 + 4 * calcsize("H")
    ELSE Needed(field)

LowestOffset ==
    CHOOSE n \in {field.offset : field \in CanonicalFields} :
        \A field \in CanonicalFields : n <= field.offset

HighestEnd ==
    CHOOSE n \in {field.offset + Consumed(field) : field \in CanonicalFields} :
        \A field \in CanonicalFields : field.offset + Consumed(field) <= n

----------------------------------------------------------------------------
(* the aggregator over headers *)

(* a buffer with the bytes b written at an offset *)
Patch(f, offset, b) ==
    [i \in 1..Len(f) |->
        IF i > offset /\ i <= offset + Len(b) THEN b[i - offset] ELSE f[i]]

(* the iris word: 0, 3000, 0x200000 and 0xFFFFFFFF, little-endian *)
IrisWords == {<<0, 0, 0, 0>>, <<184, 11, 0, 0>>, <<0, 0, 32, 0>>, <<255, 255, 255, 255>>}

(* the type word of the first frame-line: inactive, master *)
FrameLineTypeWords == {<<0, 0, 0, 0>>, <<1, 0, 0, 0>>}

(* the noise reduction mode: two with a label and one without *)
ModeWords == {<<0, 0, 0, 0>>, <<1, 0, 0, 0>>, <<2, 0, 0, 0>>}

(* a header: magic, order word, zeros, and the three words at the offsets   *)
(* of their descriptors                                                     *)
Header(order, iris, type, mode) ==
    Patch(Patch(Patch(Magic \o order \o Zeros(HeaderSize - 8),
                      Descriptor("LensIris").offset, iris),
                Descriptor("FrameLine1A").offset, type),
          Descriptor("NoiseReductionMode").offset, mode)

(* the files: whole headers, and ones that end one byte before the end of   *)
(* the last descriptor                                                      *)
HeaderFiles ==
    {Header(o, iris, type, mode) :
        o \in OrderWords, iris \in IrisWords, type \in FrameLineTypeWords, mode \in ModeWords}
    \cup {SubSeq(Header(o, <<0, 0, 0, 0>>, <<0, 0, 0, 0>>, mode), 1, HighestEnd - 1) :
              o \in OrderWords, mode \in ModeWords}

(* the allow-lists: None, one naming the iris, one naming fields of three   *)
(* other blocks, and the empty list                                         *)
HeaderAllowLists ==
    {AllFields,
     Only({"LensIris", "ExposureTime"}),
     Only({"IDIValid", "FrameLine1A", "NoiseReductionMode", "NoiseReductionApplied"}),
     Only({})}

InitHdr ==
    /\ extractors = <<>> /\ cursors = <<>>
    /\ file \in HeaderFiles
    /\ fields_to_extract \in HeaderAllowLists
    /\ rawdata = <<>> /\ objects = <<>> /\ dictionary = <<>> /\ agg = "idle"
    /\ pos = 0 /\ endianness = None /\ fields = <<>> /\ data = <<>>
    /\ phase = "base" /\ ret = NoCall /\ op = "__init__" /\ attrs = {}
    /\ arg = <<>> /\ result = NoCall

(* the block readers constructed over the header before the first failing   *)
(* one                                                                      *)
RECURSIVE CanonicalBuilt(_, _, _)
CanonicalBuilt(raw, allow, i) ==
    IF i > Len(CanonicalBlocks) THEN <<>>
    ELSE LET r == BlockData(raw, CanonicalBlocks[i].fields, allow)
         IN  IF ~r.ok THEN <<>>
             ELSE <<[name |-> CanonicalBlocks[i].name,
                     fields |-> CanonicalBlocks[i].fields, data |-> r.val]>>
                  \o CanonicalBuilt(raw, allow, i + 1)

(* ArriRawLegacyMetadataReader.__init__ with the catalogs of the nine       *)
(* modules: the header is read and the block readers are constructed over   *)
(* it in order; the exception of a failing one leaves the constructor       *)
CanonicalInit ==
    /\ agg = "idle"
    /\ rawdata' = ReadHeader(file)
    /\ objects' = CanonicalBuilt(rawdata', fields_to_extract, 1)
    /\ agg' = IF Len(objects') = Len(CanonicalBlocks) THEN "built" ELSE "raised"
    /\ result' = IF Len(objects') = Len(CanonicalBlocks) THEN NoCall
                 ELSE BlockData(rawdata', CanonicalBlocks[Len(objects') + 1].fields,
                                fields_to_extract)
    /\ UNCHANGED <<dictionary, arg>>
    /\ UNCHANGED extractorVars /\ UNCHANGED parallelVars

NextHdr == CanonicalInit \/ GetDictionary \/ ListFields

SpecHdr == InitHdr /\ [][NextHdr]_vars

(* every descriptor ends inside the header; the lowest offset is 0x0010     *)
(* and the highest end 0x09E4                                               *)
CanonicalFit ==
    /\ \A field \in CanonicalFields : field.offset + Consumed(field) <= HeaderSize
    /\ LowestOffset = 16
    /\ HighestEnd = 2532

(* the constructor has run over a buffer of exactly 4096 bytes *)
OverWholeHeader == agg # "idle" /\ Len(rawdata) = HeaderSize

(* over a whole header no read comes up short: the only exception that      *)
(* leaves the constructor is the OverflowError of the iris conversion, of   *)
(* the block Ldi, when the iris is selected and its word is 2049000 or more *)
WholeHeaderFailures ==
    (OverWholeHeader /\ agg = "raised") =>
        /\ result.err = "OverflowError"
        /\ Len(objects) = 3
        /\ Selected(Descriptor("LensIris"), fields_to_extract)
        /\ TStopOverflows(from_bytes(SubSeq(rawdata, Descriptor("LensIris").offset + 1,
                                            Descriptor("LensIris").offset + 4), "little"))

(* over a buffer that ends inside the last descriptor the read of that      *)
(* descriptor, when selected, comes up short                                *)
ShortHeaderFails ==
    (agg # "idle" /\ Len(rawdata) < HighestEnd
        /\ Selected(Descriptor("NoiseReductionApplied"), fields_to_extract)) =>
        agg = "raised" /\ result.err = "struct.error" /\ Len(objects) = 8

(* C27: every descriptor of the nine canonical catalogs satisfies offset +  *)
(* bytes consumed <= 4096 (lowest offset 0x0010, highest end 0x09E4), and   *)
(* for every buffer of exactly 4096 bytes and every allow-list the          *)
(* construction of all nine block readers completes and yields a map.       *)
C27_CanonicalFit ==
    /\ CanonicalFit
    /\ OverWholeHeader =>
          /\ agg # "raised"
          /\ Len(objects) = Len(CanonicalBlocks)

====
